---- MODULE Spec2Model ----
(***************************************************************************)
(* Model of the WhatsApp lead-classification pipeline:                     *)
(*   - the LLM classification adapter                                      *)
(*     (MessageClassifier._attempt_classification / _classify_message),    *)
(*   - the orchestrator (classify_messages /                               *)
(*     process_classification_results) working through a SQLAlchemy        *)
(*     session against the relational store,                               *)
(*   - the poll-mode runner (MessageClassifierService) and the             *)
(*     event-driven runner (QueueMessageClassifier over Redis Streams).    *)
(***************************************************************************)
EXTENDS Integers, Sequences, FiniteSets, TLC

VARIABLES
    \* ---- adapter call under test (one _attempt_classification call) ----
    a_pc,        \* "idle" | "running" | "returned" | "raised"
    a_text,      \* the message text of the call
    a_retry,     \* the is_retry argument
    a_attempt,   \* loop variable `attempt` of the for loop
    a_calls,     \* number of self.llm.invoke calls made by this call
    a_hist,      \* the LLM outcomes seen by this call, in order
    a_result,    \* the returned ClassificationResult (NoResult before)
    a_sleeps,    \* the delays of the time.sleep calls of this call, in order
    \* ---- the notifications published on the stream: text per message ----
    inbox,
    \* ---- the committed relational store ----
    db,
    \* ---- the Redis stream: per consumer group, delivered / acked ids ----
    delivered, acked,
    \* ---- one worker process each: runner position and its session ----
    wk,
    \* ---- a call of the category-name functions: input and outputs ----
    nz,
    \* ---- the poll-mode runner: position and counters of run_continuous ----
    rn,
    \* ---- the event-driven service process of each consumer ----
    qsvc,
    \* ---- a call of _classify_message: position, adapter invocations ----
    cm,
    \* ---- a call of match_with_existing_categories: inputs and outputs ----
    mt,
    \* ---- a call of _get_unclassified_messages: the table, the list ----
    ft,
    \* ---- the ingestion path: the rows by key, the stream's payloads ----
    ig

avars == <<a_pc, a_text, a_retry, a_attempt, a_calls, a_hist, a_result, a_sleeps>>
svars == <<inbox, db, delivered, acked, wk>>
nvars == <<nz>>
rvars == <<rn>>
qvars == <<qsvc>>
cvars == <<cm>>
fvars == <<mt, ft, ig>>
vars  == <<a_pc, a_text, a_retry, a_attempt, a_calls, a_hist, a_result, a_sleeps,
           inbox, db, delivered, acked, wk, nz, rn, qsvc, cm, mt, ft, ig>>

\* Python's None, a value different from every string (strings are sequences
\* of characters from Chars)
None == <<"None">>

----------------------------------------------------------------------------
(* Strings are sequences of one-character strings.                         *)

Chars == {"a", "b", "n", "y", "A", "B", "1", "_", " ", "\t", "!"}

\* str.lower() on one character
LowerChar(c) == IF c = "A" THEN "a" ELSE IF c = "B" THEN "b" ELSE c

\* the characters re.sub(r'[^a-z0-9_]', '', ...) keeps
SlugChars == {"a", "b", "n", "y", "1", "_"}

RECURSIVE MapLowerSpace(_)
\* category_name.lower().replace(' ', '_')
MapLowerSpace(s) ==
    IF s = <<>> THEN <<>>
    ELSE <<IF Head(s) = " " THEN "_" ELSE LowerChar(Head(s))>>
         \o MapLowerSpace(Tail(s))

RECURSIVE KeepSlugChars(_)
\* re.sub(r'[^a-z0-9_]', '', standardized)
KeepSlugChars(s) ==
    IF s = <<>> THEN <<>>
    ELSE (IF Head(s) \in SlugChars THEN <<Head(s)>> ELSE <<>>)
         \o KeepSlugChars(Tail(s))

RECURSIVE CollapseUnderscores(_)
\* re.sub(r'_+', '_', standardized)
CollapseUnderscores(s) ==
    IF Len(s) < 2 THEN s
    ELSE IF Head(s) = "_" /\ Head(Tail(s)) = "_"
         THEN CollapseUnderscores(Tail(s))
         ELSE <<Head(s)>> \o CollapseUnderscores(Tail(s))

RECURSIVE StripLeft(_)
StripLeft(s) ==
    IF s # <<>> /\ Head(s) = "_" THEN StripLeft(Tail(s)) ELSE s

RECURSIVE StripRight(_)
StripRight(s) ==
    IF s # <<>> /\ s[Len(s)] = "_" THEN StripRight(SubSeq(s, 1, Len(s) - 1))
    ELSE s

\* standardized.strip('_')
StripUnderscores(s) == StripRight(StripLeft(s))

RECURSIVE MapSpace(_)
MapSpace(s) ==
    IF s = <<>> THEN <<>>
    ELSE <<IF Head(s) = " " THEN "_" ELSE Head(s)>> \o MapSpace(Tail(s))

StandardizeCategoryNameKeepsCase(category_name) ==
    IF category_name = <<>> THEN category_name
    ELSE StripUnderscores(CollapseUnderscores(
             SelectSeq(MapSpace(category_name),
                       LAMBDA c : LowerChar(c) \in SlugChars)))

StandardizeCategoryNameStripsFirst(category_name) ==
    IF category_name = <<>> THEN category_name
    ELSE CollapseUnderscores(KeepSlugChars(StripUnderscores(
             MapLowerSpace(category_name))))

StandardizeCategoryNameMutant(category_name) ==
    IF category_name = <<>> THEN category_name
    ELSE StripUnderscores(KeepSlugChars(MapLowerSpace(category_name)))

\* MessageClassifier._standardize_category_name
StandardizeCategoryName(category_name) ==
    IF category_name = <<>> THEN category_name
    ELSE StripUnderscores(CollapseUnderscores(KeepSlugChars(
             MapLowerSpace(category_name))))

MinCategoryLen == 3

ValidateCategoryMutant(category_name) ==
    IF category_name = <<>> THEN None
    ELSE IF Len(StandardizeCategoryName(category_name)) <= MinCategoryLen
         THEN None
         ELSE StandardizeCategoryName(category_name)

\* MessageClassifier._validate_category: None if empty or shorter than 3
ValidateCategory(category_name) ==
    IF category_name = <<>> THEN None
    ELSE IF Len(StandardizeCategoryName(category_name)) < MinCategoryLen
         THEN None
         ELSE StandardizeCategoryName(category_name)

MaxRaw == 4

\* the characters of the raw strings the category-name functions are
\* called on: lower and upper case letters, a digit, underscore, space,
\* tab, punctuation
NormChars == {"a", "n", "y", "A", "1", "_", " ", "\t", "!"}

RawStrings == UNION {[1..n -> NormChars] : n \in 0..MaxRaw}

\* a call of _standardize_category_name(raw)
StandardizeCall ==
    /\ nz.pc = "ready"
    /\ nz' = [nz EXCEPT !.pc = "standardized",
                        !.standardized = StandardizeCategoryName(nz.raw)]
    /\ UNCHANGED avars
    /\ UNCHANGED svars
    /\ UNCHANGED rvars
    /\ UNCHANGED qvars
    /\ UNCHANGED cvars
    /\ UNCHANGED fvars

\* _standardize_category_name called on its own output
StandardizeAgainCall ==
    /\ nz.pc = "standardized"
    /\ nz' = [nz EXCEPT !.pc = "restandardized",
                        !.again = StandardizeCategoryName(nz.standardized)]
    /\ UNCHANGED avars
    /\ UNCHANGED svars
    /\ UNCHANGED rvars
    /\ UNCHANGED qvars
    /\ UNCHANGED cvars
    /\ UNCHANGED fvars

\* a call of _validate_category(raw)
ValidateCall ==
    /\ nz.pc = "ready"
    /\ nz' = [nz EXCEPT !.pc = "validated",
                        !.validated = ValidateCategory(nz.raw)]
    /\ UNCHANGED avars
    /\ UNCHANGED svars
    /\ UNCHANGED rvars
    /\ UNCHANGED qvars
    /\ UNCHANGED cvars
    /\ UNCHANGED fvars

----------------------------------------------------------------------------
(* Message texts: leading whitespace, a core that starts and ends with a   *)
(* non-blank character, trailing whitespace.                               *)

ShortThreshold == 8

MaxPad == 1
MaxCore == 9

Texts == [lead : 0..MaxPad, core : 0..MaxCore, trail : 0..MaxPad]

\* len(message_text)
RawLen(t) == t.lead + t.core + t.trail

\* len(message_text.strip())
TrimmedLen(t) == t.core

IsShortMutant(t) == RawLen(t) < ShortThreshold

\* the test of the short-circuit: len(message_text.strip()) < 8
IsShort(t) == TrimmedLen(t) < ShortThreshold

\* the two texts the stored messages carry: one just under the threshold
\* once trimmed, one just at it
ShortText == [lead |-> MaxPad, core |-> ShortThreshold - 1, trail |-> MaxPad]
LongText == [lead |-> 0, core |-> ShortThreshold, trail |-> 0]

----------------------------------------------------------------------------
(* The LLM classification adapter: _attempt_classification.                *)

max_retries == 3

\* Raw category strings the model may put in lead_category
RawCats ==
    {<<"A", "b", " ", "a">>, <<"a", "b", "_", "a">>, <<"b", "a", "b">>,
     <<"a", "!">>, <<>>}

\* What one self.llm.invoke call can produce:
\*   raise      - the call raises
\*   garbage    - text that neither parses nor contains a decodable {...} span
\*   structured - text the PydanticOutputParser accepts
\*   json       - text the parser rejects but whose {...} span json.loads
\*                decodes to an object; is_lead may be absent or not a
\*                boolean ("bad"), reasoning may be absent
LLMOutcomes ==
    {[kind |-> "raise", is_lead |-> "absent", cat |-> None, reasoning |-> "absent"],
     [kind |-> "garbage", is_lead |-> "absent", cat |-> None, reasoning |-> "absent"]}
    \cup [kind : {"structured"}, is_lead : {"true", "false"},
          cat : RawCats \cup {None}, reasoning : {"given"}]
    \cup [kind : {"json"}, is_lead : {"true", "false", "absent"},
          cat : RawCats \cup {None}, reasoning : {"given", "absent"}]
    \cup [kind : {"json"}, is_lead : {"bad"},
          cat : {None, <<"b", "a", "b">>, <<"a", "!">>}, reasoning : {"given"}]

Reasoning(tag, n) == [tag |-> tag, attempts |-> n]

Result(is_lead, cat, reasoning) ==
    [is_lead |-> is_lead, lead_category |-> cat, reasoning |-> reasoning]

NoResult == Result(FALSE, None, Reasoning("no_result", 0))

\* Python truthiness of an Optional[str]
Truthy(cat) == cat # None /\ cat # <<>>

\* lines 194-199
TooShortResult == Result(FALSE, None, Reasoning("too_short", 0))

\* lines 295-300: the default result after the last failed attempt
ErrorResult == Result(FALSE, None, Reasoning("error_after_attempts", max_retries))

StructuredResultMutant(out) ==
    IF Truthy(out.cat)
    THEN Result(out.is_lead = "true", StandardizeCategoryName(out.cat),
                Reasoning("llm", 0))
    ELSE Result(out.is_lead = "true", out.cat, Reasoning("llm", 0))

\* lines 227-242: the strict parse succeeded
StructuredResult(out) ==
    IF Truthy(out.cat)
    THEN IF ValidateCategory(out.cat) = None
         THEN Result(FALSE, None, Reasoning("invalid_category", 0))
         ELSE Result(out.is_lead = "true", ValidateCategory(out.cat),
                     Reasoning("llm", 0))
    ELSE Result(out.is_lead = "true", out.cat, Reasoning("llm", 0))

\* lines 258-276: ClassificationResult built from the decoded JSON object;
\* building it raises (pydantic ValidationError) when is_lead is not a boolean
JsonRaises(out) ==
    /\ out.is_lead = "bad"
    /\ ~(Truthy(out.cat) /\ ValidateCategory(out.cat) = None)

\* line 275: data.get('reasoning', 'Parsed from malformed response')
JsonReasoning(out) ==
    IF out.reasoning = "given" THEN Reasoning("llm", 0)
    ELSE Reasoning("malformed", 0)

JsonResultUnvalidated(out) ==
    Result(out.is_lead = "true", out.cat, JsonReasoning(out))

JsonResult(out) ==
    IF Truthy(out.cat)
    THEN IF ValidateCategory(out.cat) = None
         THEN Result(FALSE, None, Reasoning("invalid_category", 0))
         ELSE Result(out.is_lead = "true", ValidateCategory(out.cat),
                     JsonReasoning(out))
    ELSE Result(out.is_lead = "true", out.cat, JsonReasoning(out))

\* the attempt ends the call with a parsed result
AttemptSucceeds(out) ==
    \/ out.kind = "structured"
    \/ out.kind = "json" /\ ~JsonRaises(out)

ParsedResult(out) ==
    IF out.kind = "structured" THEN StructuredResult(out) ELSE JsonResult(out)

AttemptStepUsesAllAttempts(attempt, out) ==
    IF attempt = max_retries - 1
    THEN [pc |-> "returned",
          result |-> IF AttemptSucceeds(out) THEN ParsedResult(out) ELSE ErrorResult]
    ELSE [pc |-> "running", result |-> NoResult]

AttemptStepRaises(attempt, out) ==
    IF AttemptSucceeds(out)
    THEN [pc |-> "returned", result |-> ParsedResult(out)]
    ELSE IF attempt = max_retries - 1
         THEN [pc |-> "raised", result |-> NoResult]
         ELSE [pc |-> "running", result |-> NoResult]

AttemptStepNoRetry(attempt, out) ==
    IF AttemptSucceeds(out)
    THEN [pc |-> "returned", result |-> ParsedResult(out)]
    ELSE [pc |-> "returned", result |-> ErrorResult]

\* One iteration of `for attempt in range(max_retries)` (lines 204-305):
\* a parsed result is returned; every failure (the invoke raising, an
\* unparseable text, a ValidationError in the fallback) reaches the outer
\* except, which returns the default on the last attempt and otherwise
\* sleeps and goes round again.
AttemptStep(attempt, out) ==
    IF AttemptSucceeds(out)
    THEN [pc |-> "returned", result |-> ParsedResult(out)]
    ELSE IF attempt = max_retries - 1
         THEN [pc |-> "returned", result |-> ErrorResult]
         ELSE [pc |-> "running", result |-> NoResult]

base_delay == 1

\* the values of random.uniform(0, 1) taken: its two ends
Jitters == {0, 1}

DelayDoubled(attempt, jitter) == base_delay * (2 ^ (attempt + 1)) + jitter

\* lines 285 and 303: base_delay * (2 ** attempt) + random.uniform(0, 1)
Delay(attempt, jitter) == base_delay * (2 ^ attempt) + jitter

\* _attempt_classification is entered (lines 190-202): the short-circuit
\* returns at once, every other text enters the loop
AEnter(t, is_retry) ==
    /\ a_text' = t
    /\ a_retry' = is_retry
    /\ a_attempt' = 0
    /\ a_calls' = 0
    /\ a_hist' = <<>>
    /\ a_sleeps' = <<>>
    /\ IF IsShort(t)
       THEN a_pc' = "returned" /\ a_result' = TooShortResult
       ELSE a_pc' = "running" /\ a_result' = NoResult

\* a call of _attempt_classification with any text and any is_retry
AStart(t, is_retry) ==
    /\ a_pc = "idle"
    /\ AEnter(t, is_retry)
    /\ UNCHANGED svars
    /\ UNCHANGED nvars
    /\ UNCHANGED rvars
    /\ UNCHANGED qvars
    /\ UNCHANGED cvars
    /\ UNCHANGED fvars

\* one pass of the loop body: invoke the LLM, parse, return, or sleep for
\* the backoff delay and go round again
AInvoke(out, jitter) ==
    /\ a_pc = "running"
    /\ a_attempt < max_retries
    /\ AttemptStep(a_attempt, out).pc # "running" => jitter = 0
    /\ a_sleeps' = IF AttemptStep(a_attempt, out).pc = "running"
                   THEN Append(a_sleeps, Delay(a_attempt, jitter))
                   ELSE a_sleeps
    /\ a_calls' = a_calls + 1
    /\ a_hist' = Append(a_hist, out)
    /\ a_pc' = AttemptStep(a_attempt, out).pc
    /\ a_result' = AttemptStep(a_attempt, out).result
    /\ a_attempt' = IF AttemptStep(a_attempt, out).pc = "running"
                    THEN a_attempt + 1 ELSE a_attempt
    /\ UNCHANGED <<a_text, a_retry>>
    /\ UNCHANGED svars
    /\ UNCHANGED nvars
    /\ UNCHANGED rvars
    /\ UNCHANGED qvars
    /\ UNCHANGED cvars
    /\ UNCHANGED fvars

\* the call's frame is gone; the adapter is ready for the next call
ALeave ==
    /\ a_pc' = "idle"
    /\ a_text' = LongText
    /\ a_retry' = FALSE
    /\ a_attempt' = 0
    /\ a_calls' = 0
    /\ a_hist' = <<>>
    /\ a_sleeps' = <<>>
    /\ a_result' = NoResult

\* the caller takes the result
AReturn ==
    /\ a_pc = "returned"
    /\ ALeave
    /\ UNCHANGED svars
    /\ UNCHANGED nvars
    /\ UNCHANGED rvars
    /\ UNCHANGED qvars
    /\ UNCHANGED cvars
    /\ UNCHANGED fvars

----------------------------------------------------------------------------
(* _classify_message: the adapter, then once more with is_retry if the     *)
(* first result is a lead without a category (lines 315-334).              *)

\* the LLM responses exercised by the orchestrator specification
OrchOutcomes ==
    {o \in LLMOutcomes :
        \/ o.kind = "raise"
        \/ o.kind = "structured" /\ o.is_lead = "true"
              /\ (o.cat = None \/ ValidateCategory(o.cat) # None)
        \/ o.kind = "structured" /\ o.is_lead = "false" /\ o.cat = None}

RECURSIVE AttemptFrom(_, _)
\* the results the loop of _attempt_classification can return from
\* iteration `attempt` on, over all LLM responses drawn from outs
AttemptFrom(attempt, outs) ==
    IF attempt >= max_retries
    THEN {Result(FALSE, None, Reasoning("failed_all_retries", 0))}
    ELSE UNION {IF AttemptStep(attempt, o).pc = "returned"
                THEN {AttemptStep(attempt, o).result}
                ELSE AttemptFrom(attempt + 1, outs) : o \in outs}

\* _attempt_classification as a relation: text -> possible results
AttemptClassification(t, outs) ==
    IF IsShort(t) THEN {TooShortResult} ELSE AttemptFrom(0, outs)

NeedsRetryOnlyNone(r) == r.is_lead /\ r.lead_category = None

\* line 326: if result.is_lead and not result.lead_category
NeedsRetry(r) == r.is_lead /\ ~Truthy(r.lead_category)

\* no call of _classify_message is under way
ClassifyIdle ==
    cm = [pc |-> "idle", invocations |-> 0, first |-> NoResult,
          final |-> NoResult]

\* _classify_message is called (lines 315-323): the first call of the
\* adapter, with is_retry False
CMFirst(t) ==
    /\ cm.pc = "idle"
    /\ a_pc = "idle"
    /\ AEnter(t, FALSE)
    /\ cm' = [cm EXCEPT !.pc = "first", !.invocations = 1]
    /\ UNCHANGED <<svars, nvars, rvars, qvars, fvars>>

\* the first call has returned (lines 323-328): a lead without a category
\* makes the second call, with is_retry True; every other result is final
CMAfterFirst ==
    /\ cm.pc = "first"
    /\ a_pc = "returned"
    /\ IF NeedsRetry(a_result)
       THEN /\ AEnter(a_text, TRUE)
            /\ cm' = [cm EXCEPT !.pc = "second", !.invocations = 2,
                                !.first = a_result]
       ELSE /\ ALeave
            /\ cm' = [cm EXCEPT !.pc = "done", !.first = a_result,
                                !.final = a_result]
    /\ UNCHANGED <<svars, nvars, rvars, qvars, fvars>>

\* the second call has returned (lines 328-334): its result is returned
CMAfterSecond ==
    /\ cm.pc = "second"
    /\ a_pc = "returned"
    /\ ALeave
    /\ cm' = [cm EXCEPT !.pc = "done", !.final = a_result]
    /\ UNCHANGED <<svars, nvars, rvars, qvars, fvars>>

\* the caller of _classify_message takes the result
CMReturn ==
    /\ cm.pc = "done"
    /\ cm' = [pc |-> "idle", invocations |-> 0, first |-> NoResult,
              final |-> NoResult]
    /\ UNCHANGED <<avars, svars, nvars, rvars, qvars, fvars>>

\* _classify_message as a relation: text -> possible final results
ClassifyMessage(t, outs) ==
    {r \in AttemptClassification(t, outs) : ~NeedsRetry(r)}
    \cup (IF \E r \in AttemptClassification(t, outs) : NeedsRetry(r)
          THEN AttemptClassification(t, outs) ELSE {})

\* the final results for a text under the short-circuit and for one over it
ShortResults == ClassifyMessage(ShortText, OrchOutcomes)
LongResults == ClassifyMessage(LongText, OrchOutcomes)

ClassifyResults(t) == IF IsShort(t) THEN ShortResults ELSE LongResults

----------------------------------------------------------------------------
(* The store, the stream and the workers.                                  *)

NumMsgs == 2
BatchLimit == 2

Msgs == 1..NumMsgs
\* two processes on the same store: the poll-mode service
\* (classify_new_messages.py) and the event-driven service
\* (classify_messages_from_queue.py)
Pollers == {"poller"}
Consumers == {"consumer"}
Workers == Pollers \cup Consumers

\* sender_id and group_id of the WhatsAppMessage row of message m
Sender(m) == m
Group(m) == 1

NoPending == [cats |-> {}, cls |-> {}, lookups |-> {}]

\* A worker: where its runner is (mode, stage), the batch it took and
\* whether every message of it was unprocessed at that moment (fresh, a
\* history field), the results of classify_messages, the position and the
\* processed_count of process_classification_results, the matched_category
\* of the result handled last (None before), what the matcher was called
\* with for it (matcher_arg), whether the matcher's LLM call raised for it
\* (matcher_raised), and the way its handling ended
\* (outcome, "none" before), and what its session has flushed and not
\* committed (pend).
NoArgument == [field |-> "none", of |-> 0]

IdleWorker ==
    [mode |-> "idle", stage |-> "idle", batch |-> <<>>, fresh |-> TRUE,
     results |-> <<>>, idx |-> 1, processed_count |-> 0,
     matched_category |-> None, matcher_arg |-> NoArgument,
     matcher_raised |-> FALSE,
     outcome |-> "none", pend |-> NoPending]

\* rows the session of worker w sees: committed rows and its own flushed ones
VisibleCats(w) == db.cats \cup wk[w].pend.cats

UsedClsIds ==
    {c.id : c \in db.cls} \cup UNION {{c.id : c \in wk[w].pend.cls} : w \in Workers}

\* the primary key the database assigns to a new row
FreshId(used) == CHOOSE i \in 1..(Cardinality(used) + 1) : i \notin used

RECURSIVE SeqOfSet(_)
\* the elements of a set of message ids in ascending order
SeqOfSet(S) ==
    IF S = {} THEN <<>>
    ELSE LET m == CHOOSE x \in S : \A y \in S : x <= y
         IN <<m>> \o SeqOfSet(S \ {m})

RECURSIVE DropShort(_)
DropShort(q) ==
    IF q = <<>> THEN <<>>
    ELSE (IF IsShort(inbox[Head(q)]) THEN <<>> ELSE <<Head(q)>>)
         \o DropShort(Tail(q))

\* db.get_unclassified_messages on store d: rows with llm_processed false
GetUnclassifiedMessages(d) ==
    SeqOfSet({m \in Msgs : d.present[m] /\ ~d.processed[m]})

\* MessageClassifierService._get_unclassified_messages: the first `limit`
\* rows, without those whose trimmed text is under 8 characters
PollBatch ==
    DropShort(SubSeq(GetUnclassifiedMessages(db), 1,
        IF Len(GetUnclassifiedMessages(db)) < BatchLimit
        THEN Len(GetUnclassifiedMessages(db)) ELSE BatchLimit))

\* the LLM call of match_with_existing_categories raised (db.py line 319)
MatcherError == <<"MatcherError">>

\* db.match_with_existing_categories up to its LLM call: None at once when
\* there is no category row (lines 274-278); otherwise the call's answer
\* resolved against the existing names (a name of the list, or None for
\* no_match and for an answer outside the list, lines 322-331), or the
\* exception the call raised
MatchWithExistingCategories(existing) ==
    IF existing = {} THEN {None} ELSE existing \cup {None, MatcherError}

MatchReturnLeaks(answer) == answer

\* what match_with_existing_categories returns: its except turns the
\* exception into None (lines 333-337)
MatchReturn(answer) == IF answer = MatcherError THEN None ELSE answer

\* get_message_by_id(session, message_id): the row, or nothing
GetMessageById(m) == IF db.present[m] THEN {m} ELSE {}

\* create_classification_record: the row added to the session
CreateClassificationRecord(id, m, category, cr) ==
    [id |-> id, message_id |-> m, category |-> category,
     is_lead |-> cr.is_lead, raw_llm_output |-> cr.lead_category]

\* create_lead_record as process_classification_results calls it (lines
\* 530-538): the row added to the session
CreateLeadRecord(id, classification_id, user_id, group_id, message_id, lead_category_id) ==
    [id |-> id, classification_id |-> classification_id,
     user_id |-> user_id, group_id |-> group_id,
     message_id |-> message_id, lead_category_id |-> lead_category_id]

\* lines 481-486: the rows get_or_create_intent_type and
\* get_classification_prompt get or create for a result, by name
Lookups(cr) ==
    {IF cr.is_lead THEN "lead_seeking" ELSE "general_message", "lead_classification"}

\* what the session of worker w has flushed and not committed once the two
\* lookups were made for the result it is handling
FlushedLookups(w) ==
    wk[w].pend.lookups
        \cup (Lookups(wk[w].results[wk[w].idx].classification_result) \ db.lookups)

\* db.mark_message_as_processed followed by session.commit(): the flag is
\* set if the row exists, and everything the session has flushed becomes
\* committed with it
Commit(w, m, newcats, newcls, newleads) ==
    [db EXCEPT
        !.cats = @ \cup wk[w].pend.cats \cup newcats,
        !.cls = @ \cup wk[w].pend.cls \cup newcls,
        !.leads = @ \cup newleads,
        !.lookups = @ \cup FlushedLookups(w),
        !.processed[m] = IF db.present[m] THEN TRUE ELSE @]

\* MessageClassifierService._run_classification_iteration, lines 177-188:
\* open a session and fetch the batch
PollFetch(w) ==
    /\ w \in Pollers
    /\ wk[w].mode = "idle"
    /\ PollBatch # <<>>
    /\ wk' = [wk EXCEPT ![w] = [IdleWorker EXCEPT
                 !.mode = "poll", !.stage = "classify", !.batch = PollBatch]]
    /\ UNCHANGED <<inbox, db, delivered, acked>>
    /\ UNCHANGED avars
    /\ UNCHANGED nvars
    /\ UNCHANGED rvars
    /\ UNCHANGED qvars
    /\ UNCHANGED cvars
    /\ UNCHANGED fvars

\* RedisStreamsQueue.consume_messages, lines 69-84: xreadgroup with '>'
\* hands the consumer group of w the next message it has not yet received
QueueReceive(w) ==
    /\ w \in Consumers
    /\ qsvc[w].status = "up"
    /\ wk[w].mode = "idle"
    /\ Msgs \ delivered[w] # {}
    /\ LET m == CHOOSE x \in Msgs \ delivered[w] :
                    \A y \in Msgs \ delivered[w] : x <= y
       IN /\ delivered' = [delivered EXCEPT ![w] = @ \cup {m}]
          /\ wk' = [wk EXCEPT ![w] = [IdleWorker EXCEPT
                 !.mode = "queue", !.stage = "classify", !.batch = <<m>>,
                 !.fresh = ~db.processed[m]]]
    /\ UNCHANGED <<inbox, db, acked>>
    /\ UNCHANGED avars
    /\ UNCHANGED nvars
    /\ UNCHANGED rvars
    /\ UNCHANGED qvars
    /\ UNCHANGED cvars
    /\ UNCHANGED fvars

ClassifyDropsFailed(w, success, cr) ==
    LET me == wk[w]
        m == me.batch[Len(me.results) + 1]
        res == [message_id |-> m, success |-> success,
                classification_result |-> cr]
        last == Len(me.results) + 1 = Len(me.batch)
    IN /\ me.stage = "classify"
       /\ Len(me.results) < Len(me.batch)
       /\ IF success
          THEN cr \in ClassifyResults(inbox[m])
          ELSE cr = NoResult
       /\ wk' = [wk EXCEPT ![w] = [me EXCEPT
                 !.results = IF success THEN Append(@, res) ELSE @,
                 !.stage = IF last THEN "process" ELSE @,
                 !.idx = 1]]
       /\ UNCHANGED <<inbox, db, delivered, acked>>
       /\ UNCHANGED avars
       /\ UNCHANGED nvars
       /\ UNCHANGED rvars
       /\ UNCHANGED qvars
       /\ UNCHANGED cvars
       /\ UNCHANGED fvars

\* one iteration of the loop of classify_messages (lines 380-433)
Classify(w, success, cr) ==
    LET me == wk[w]
        m == me.batch[Len(me.results) + 1]
        res == [message_id |-> m, success |-> success,
                classification_result |-> cr]
        last == Len(me.results) + 1 = Len(me.batch)
    IN /\ me.stage = "classify"
       /\ Len(me.results) < Len(me.batch)
       /\ IF success
          THEN cr \in ClassifyResults(inbox[m])
          ELSE cr = NoResult
       /\ wk' = [wk EXCEPT ![w] = [me EXCEPT
                 !.results = Append(@, res),
                 !.stage = IF last THEN "process" ELSE @,
                 !.idx = IF last /\ me.mode = "queue" /\ ~success
                         THEN 2 ELSE 1]]
       /\ UNCHANGED <<inbox, db, delivered, acked>>
       /\ UNCHANGED avars
       /\ UNCHANGED nvars
       /\ UNCHANGED rvars
       /\ UNCHANGED qvars
       /\ UNCHANGED cvars
       /\ UNCHANGED fvars

(* The effect of one iteration of the loop of                              *)
(* process_classification_results on the store, on the session and on      *)
(* processed_count, [db, pend, counted], branch by branch.                 *)

ResolvedCategoryMutant(cr, matched) == cr.lead_category

\* the category the lead is filed under (lines 492-504)
ResolvedCategory(cr, matched) ==
    IF matched # None THEN matched ELSE cr.lead_category

\* get_or_create_lead_category: the row it adds, if the name is new
NewCategories(w, category) ==
    IF category \in VisibleCats(w) THEN {} ELSE {category}

NewClassification(r, matched) ==
    CreateClassificationRecord(FreshId(UsedClsIds), r.message_id,
        ResolvedCategory(r.classification_result, matched),
        r.classification_result)

NewLead(r, matched) ==
    CreateLeadRecord(FreshId({l.id : l \in db.leads}),
        NewClassification(r, matched).id,
        Sender(r.message_id), Group(r.message_id), r.message_id,
        ResolvedCategory(r.classification_result, matched))

FailedOutcomeUndoesBatch(w, r, matched) ==
    [db |-> [db EXCEPT
               !.cls = {c \in @ : \A i \in DOMAIN wk[w].batch : c.message_id # wk[w].batch[i]},
               !.processed = [m \in Msgs |->
                   @[m] /\ \A i \in DOMAIN wk[w].batch : m # wk[w].batch[i]]],
     pend |-> NoPending, counted |-> 0]

FailedOutcomeNoRollback(w, r, matched) ==
    IF r.classification_result.is_lead
       /\ Truthy(r.classification_result.lead_category)
    THEN [db |-> db,
          pend |-> [cats |-> wk[w].pend.cats
                        \cup NewCategories(w, r.classification_result.lead_category),
                    cls |-> wk[w].pend.cls \cup {NewClassification(r, matched)},
                    lookups |-> FlushedLookups(w)],
          counted |-> 0]
    ELSE [db |-> db, pend |-> [wk[w].pend EXCEPT !.lookups = FlushedLookups(w)], counted |-> 0]

FailedOutcomeMutant(w, r, matched) ==
    IF r.classification_result.is_lead
       /\ Truthy(r.classification_result.lead_category)
    THEN [db |-> [db EXCEPT
                    !.cats = @ \cup NewCategories(w, r.classification_result.lead_category),
                    !.cls = @ \cup {NewClassification(r, matched)}],
          pend |-> NoPending, counted |-> 0]
    ELSE [db |-> db, pend |-> NoPending, counted |-> 0]

\* lines 566-570: an exception in the try block; session.rollback()
FailedOutcome(w, r, matched) ==
    [db |-> db, pend |-> NoPending, counted |-> 0]

SkippedOutcomeMutant(w, r, matched) ==
    [db |-> Commit(w, r.message_id, {}, {}, {}),
     pend |-> NoPending, counted |-> 1]

\* lines 479-486 and 505-508: the lookups are flushed, a lead without a
\* category; continue
SkippedOutcome(w, r, matched) ==
    [db |-> db, pend |-> [wk[w].pend EXCEPT !.lookups = FlushedLookups(w)], counted |-> 0]

NotFoundOutcomeNoCategory(w, r, matched) ==
    [db |-> db,
     pend |-> [cats |-> wk[w].pend.cats,
               cls |-> wk[w].pend.cls \cup {NewClassification(r, matched)},
               lookups |-> FlushedLookups(w)],
     counted |-> 0]

NotFoundOutcomeMutant(w, r, matched) ==
    [db |-> Commit(w, r.message_id,
                   NewCategories(w, ResolvedCategory(r.classification_result, matched)),
                   {NewClassification(r, matched)}, {}),
     pend |-> NoPending, counted |-> 1]

\* lines 514-526 and 549-551: the classification is flushed, the message
\* row is not found; continue
NotFoundOutcome(w, r, matched) ==
    [db |-> db,
     pend |-> [cats |-> wk[w].pend.cats
                        \cup NewCategories(w, ResolvedCategory(r.classification_result, matched)),
               cls |-> wk[w].pend.cls \cup {NewClassification(r, matched)},
               lookups |-> FlushedLookups(w)],
     counted |-> 0]

LeadOutcomeMutant(w, r, matched) ==
    [db |-> Commit(w, r.message_id, {},
                   {NewClassification(r, matched)}, {NewLead(r, matched)}),
     pend |-> NoPending, counted |-> 1]

\* lines 491-504 and 514-563: category, classification, lead, processed
\* flag, commit
LeadOutcome(w, r, matched) ==
    [db |-> Commit(w, r.message_id,
                   NewCategories(w, ResolvedCategory(r.classification_result, matched)),
                   {NewClassification(r, matched)}, {NewLead(r, matched)}),
     pend |-> NoPending, counted |-> 1]

NonLeadOutcomeUnmarked(w, r, matched) ==
    [db |-> db, pend |-> NoPending, counted |-> 1]

NonLeadOutcomeMutant(w, r, matched) ==
    [db |-> Commit(w, r.message_id, {}, {NewClassification(r, matched)}, {}),
     pend |-> NoPending, counted |-> 1]

\* lines 509-511 and 552-563: no record for a non-lead; processed flag,
\* commit
NonLeadOutcome(w, r, matched) ==
    [db |-> Commit(w, r.message_id, {}, {}, {}),
     pend |-> NoPending, counted |-> 1]

\* the way one iteration of the loop ends (lines 468-570):
\*   unclassified - the result has success false (lines 469-471)
\*   failed       - a step of the try block raised (lines 566-570)
\*   skipped      - a lead without a category (lines 505-508)
\*   notfound     - the message row was not found (lines 549-551)
\*   lead, nonlead - the commit was reached (lines 556-564)
OutcomeKind(r, fail) ==
    IF ~r.success THEN "unclassified"
    ELSE IF fail THEN "failed"
    ELSE IF r.classification_result.is_lead
            /\ ~Truthy(r.classification_result.lead_category)
    THEN "skipped"
    ELSE IF r.classification_result.is_lead /\ GetMessageById(r.message_id) = {}
    THEN "notfound"
    ELSE IF r.classification_result.is_lead THEN "lead"
    ELSE "nonlead"

\* one iteration of the loop (lines 468-570)
ProcessOutcome(w, r, fail, matched) ==
    CASE OutcomeKind(r, fail) = "unclassified" ->
             [db |-> db, pend |-> wk[w].pend, counted |-> 0]
      [] OutcomeKind(r, fail) = "failed" -> FailedOutcome(w, r, matched)
      [] OutcomeKind(r, fail) = "skipped" -> SkippedOutcome(w, r, matched)
      [] OutcomeKind(r, fail) = "notfound" -> NotFoundOutcome(w, r, matched)
      [] OutcomeKind(r, fail) = "lead" -> LeadOutcome(w, r, matched)
      [] OutcomeKind(r, fail) = "nonlead" -> NonLeadOutcome(w, r, matched)

\* line 494: the message_text argument of match_with_existing_categories is
\* classification_result.lead_category of the result being handled
MatcherArgument(r) == [field |-> "lead_category", of |-> r.message_id]

\* one iteration of the loop of process_classification_results; answer is
\* what the matcher's LLM call comes to, if it is made
ProcessResult(w, fail, answer) ==
    LET me == wk[w]
        r == me.results[me.idx]
        cr == r.classification_result
        lead_path == r.success /\ ~fail /\ cr.is_lead /\ Truthy(cr.lead_category)
        matched == MatchReturn(answer)
        category == ResolvedCategory(cr, matched)
    IN /\ me.stage = "process"
       /\ me.idx <= Len(me.results)
       /\ IF lead_path
          THEN /\ answer \in MatchWithExistingCategories(VisibleCats(w))
               \* the insert of a category name that another session has
               \* flushed but not committed waits for that session
               /\ \A o \in Workers \ {w} :
                      category \in wk[o].pend.cats => category \in VisibleCats(w)
          ELSE answer = None
       /\ db' = ProcessOutcome(w, r, fail, matched).db
       /\ wk' = [wk EXCEPT ![w] = [me EXCEPT
                 !.idx = @ + 1,
                 !.processed_count = @ + ProcessOutcome(w, r, fail, matched).counted,
                 !.matched_category = matched,
                 !.matcher_arg = IF lead_path THEN MatcherArgument(r)
                                 ELSE NoArgument,
                 !.matcher_raised = (answer = MatcherError),
                 !.outcome = OutcomeKind(r, fail),
                 !.pend = ProcessOutcome(w, r, fail, matched).pend]]
       /\ UNCHANGED <<inbox, delivered, acked>>
       /\ UNCHANGED avars
       /\ UNCHANGED nvars
       /\ UNCHANGED rvars
       /\ UNCHANGED qvars
       /\ UNCHANGED cvars
       /\ UNCHANGED fvars

\* the runner is done with the batch: the session is closed (what it has
\* flushed and not committed is discarded); in event-driven mode
\* process_message has returned and the consumer loop acknowledges the
\* message (redis_streams_queue.py line 87), unless the xack call itself
\* raises (xack_ok false), which the loop logs (lines 90-92)
Finish(w, xack_ok) ==
    /\ wk[w].stage = "process"
    /\ wk[w].idx > Len(wk[w].results)
    /\ wk[w].mode = "poll" => xack_ok
    /\ acked' = IF wk[w].mode = "queue" /\ xack_ok
                THEN [acked EXCEPT ![w] = @ \cup {wk[w].batch[1]}]
                ELSE acked
    /\ wk' = [wk EXCEPT ![w] = IdleWorker]
    /\ UNCHANGED <<inbox, db, delivered>>
    /\ UNCHANGED avars
    /\ UNCHANGED nvars
    /\ UNCHANGED rvars
    /\ UNCHANGED qvars
    /\ UNCHANGED cvars
    /\ UNCHANGED fvars

\* consume_messages line 69: xreadgroup raises (the connection to Redis is
\* lost). The call is outside the try of lines 80-92, so the exception
\* reaches the except of lines 98-100, which logs and re-raises; run
\* re-raises (classify_messages_from_queue.py lines 146-148) and main calls
\* sys.exit(1) (lines 162-164).
QueueReadRaises(w) ==
    /\ w \in Consumers
    /\ qsvc[w].status = "up"
    /\ wk[w].mode = "idle"
    /\ qsvc' = [qsvc EXCEPT ![w].status = "exit1"]
    /\ UNCHANGED avars
    /\ UNCHANGED svars
    /\ UNCHANGED nvars
    /\ UNCHANGED rvars
    /\ UNCHANGED cvars
    /\ UNCHANGED fvars

\* SIGINT or SIGTERM is delivered to the service process: _signal_handler
\* (classify_messages_from_queue.py lines 59-62) logs and sets self.running
\* to False; whatever the process was doing goes on
Signal(w) ==
    /\ w \in Consumers
    /\ qsvc[w].status = "up"
    /\ qsvc' = [qsvc EXCEPT ![w].running = FALSE]
    /\ UNCHANGED avars
    /\ UNCHANGED svars
    /\ UNCHANGED nvars
    /\ UNCHANGED rvars
    /\ UNCHANGED cvars
    /\ UNCHANGED fvars

\* no call of the category-name functions is under way
NormIdle ==
    nz = [pc |-> "idle", raw |-> <<>>, standardized |-> <<>>, again |-> <<>>,
          validated |-> None]

\* run_continuous has not started its first iteration (lines 234-240)
RunnerIdle ==
    rn = [pc |-> "loop", iteration |-> 0, messages_found |-> 0,
          failed |-> 0, errors |-> 0, total_errors |-> 0, raised |-> {},
          interrupted |-> FALSE]

\* QueueMessageClassifier.__init__ (lines 42-57): self.running = True; the
\* process is alive
ServiceUp ==
    qsvc = [w \in Consumers |-> [running |-> TRUE, status |-> "up"]]

\* no call of match_with_existing_categories is under way
NoPrompt == [built |-> FALSE, categories |-> {}, text |-> <<>>]

\* no call of match_with_existing_categories is under way
MatcherIdle ==
    mt = [pc |-> "idle", existing |-> {}, message_text |-> <<>>,
          prompt |-> NoPrompt, invocations |-> 0, content |-> None,
          result |-> None]

\* no call of _get_unclassified_messages on a table of its own is under way
FetchIdle == ft = [pc |-> "idle", table |-> <<>>, messages |-> <<>>]

\* a value of a key column or of the payload's 'id': the integer primary
\* keys and the WhatsApp idMessage strings are values of different types
IntKey(n) == [type |-> "int", n |-> n]
StrKey(n) == [type |-> "str", n |-> n]
NoKey == [type |-> "none", n |-> 0]

EmptyStore == [messages |-> {}, users |-> {}, groups |-> {}]

NoCall == [op |-> "none", arg |-> NoKey, ret |-> NoKey, outcome |-> "none"]

\* nothing was ingested yet
IngestIdle == ig = [store |-> EmptyStore, stream |-> {}, last |-> NoCall]

\* no call of the functions checked on their own is under way
FramesIdle == MatcherIdle /\ FetchIdle /\ IngestIdle

AdapterIdle ==
    /\ a_pc = "idle"
    /\ a_text = LongText
    /\ a_retry = FALSE
    /\ a_attempt = 0
    /\ a_calls = 0
    /\ a_hist = <<>>
    /\ a_sleeps = <<>>
    /\ a_result = NoResult

\* messages are stored with llm_processed false (create_message, line 77);
\* a notification published by another environment's receiver has no row
\* in this store
Init ==
    /\ AdapterIdle
    /\ NormIdle
    /\ RunnerIdle
    /\ ServiceUp
    /\ ClassifyIdle
    /\ FramesIdle
    /\ inbox \in [Msgs -> {ShortText, LongText}]
    /\ \E present \in [Msgs -> BOOLEAN] :
          /\ \A m \in Msgs : IsShort(inbox[m]) => present[m]
          /\ db = [present |-> present,
                   processed |-> [m \in Msgs |-> FALSE],
                   cats |-> {}, cls |-> {}, leads |-> {}, lookups |-> {}]
    /\ delivered = [w \in Workers |-> {}]
    /\ acked = [w \in Workers |-> {}]
    /\ wk = [w \in Workers |-> IdleWorker]

Next ==
    \/ \E w \in Workers : PollFetch(w)
    \/ \E w \in Workers : QueueReceive(w)
    \/ \E w \in Workers, success \in BOOLEAN,
          cr \in LongResults \cup ShortResults \cup {NoResult} :
          Classify(w, success, cr)
    \/ \E w \in Workers, fail \in BOOLEAN, answer \in db.cats \cup {None, MatcherError} :
          ProcessResult(w, fail, answer)
    \/ \E w \in Workers : Finish(w, TRUE)

\* the two services on one store, with a stream whose xack calls return
Spec == Init /\ [][Next]_vars

\* The event-driven service on its own, with xack and xreadgroup calls that
\* may raise and shutdown signals.
\* consume_messages is a `while True` loop of steps that each return, so
\* the consumer's next step is always eventually taken.
QueueNext ==
    \/ \E w \in Consumers : QueueReceive(w)
    \/ \E w \in Consumers, success \in BOOLEAN,
          cr \in LongResults \cup ShortResults \cup {NoResult} :
          Classify(w, success, cr)
    \/ \E w \in Consumers, fail \in BOOLEAN, answer \in db.cats \cup {None, MatcherError} :
          ProcessResult(w, fail, answer)
    \/ \E w \in Consumers, xack_ok \in BOOLEAN : Finish(w, xack_ok)
    \/ \E w \in Consumers : QueueReadRaises(w)
    \/ \E w \in Consumers : Signal(w)

QueueSpec == Init /\ [][QueueNext]_vars /\ WF_vars(QueueNext)

\* the results of _classify_message when every LLM call returns a verdict
\* that needs no repair: a non-lead, or a lead with a valid category
PollVerdicts ==
    {r \in LongResults : r.reasoning.tag = "llm" /\ ~NeedsRetry(r)}

\* the poller classifies message m and every LLM call returns a verdict
VerdictFor(m) ==
    \E w \in Pollers, cr \in PollVerdicts :
        /\ Classify(w, TRUE, cr)
        /\ wk[w].batch[Len(wk[w].results) + 1] = m

\* the poller handles the verdict for message m and no write to the store
\* raises
PersistFor(m) ==
    \E w \in Pollers, answer \in db.cats \cup {None, MatcherError} :
        /\ ProcessResult(w, FALSE, answer)
        /\ wk[w].results[wk[w].idx].message_id = m
        /\ wk[w].results[wk[w].idx].success
        /\ wk[w].results[wk[w].idx].classification_result \in PollVerdicts

\* The poll-mode service on its own. run_continuous is a `while True` loop
\* of iterations that each return (lines 242-287), so the poller's next
\* step is always eventually taken. LLM calls and writes to the store may
\* fail any number of times, but for each message not for ever: a message
\* that is classified again and again eventually gets a verdict, and a
\* verdict that is handled again and again is eventually written.
PollNext ==
    \/ \E w \in Pollers : PollFetch(w)
    \/ \E w \in Pollers, success \in BOOLEAN,
          cr \in LongResults \cup {NoResult} :
          Classify(w, success, cr)
    \/ \E w \in Pollers, fail \in BOOLEAN, answer \in db.cats \cup {None, MatcherError} :
          ProcessResult(w, fail, answer)
    \/ \E w \in Pollers : Finish(w, TRUE)

PollFairness ==
    /\ WF_vars(PollNext)
    /\ \A m \in Msgs : SF_vars(VerdictFor(m)) /\ SF_vars(PersistFor(m))

PollSpec == Init /\ [][PollNext]_vars /\ PollFairness

\* the two services on a store that already holds one Category row, left by
\* leads handled before; both messages are stored and over the short
\* threshold
ExistingCategory == <<"b", "a", "b">>

CatInit ==
    /\ AdapterIdle
    /\ NormIdle
    /\ RunnerIdle
    /\ ServiceUp
    /\ ClassifyIdle
    /\ FramesIdle
    /\ inbox = [m \in Msgs |-> LongText]
    /\ db = [present |-> [m \in Msgs |-> TRUE],
             processed |-> [m \in Msgs |-> FALSE],
             cats |-> {ExistingCategory}, cls |-> {}, leads |-> {}, lookups |-> {}]
    /\ delivered = [w \in Workers |-> {}]
    /\ acked = [w \in Workers |-> {}]
    /\ wk = [w \in Workers |-> IdleWorker]

CatSpec == CatInit /\ [][Next]_vars

\* the adapter on its own: any text, any LLM behaviour
AdapterInit ==
    /\ AdapterIdle
    /\ NormIdle
    /\ RunnerIdle
    /\ ServiceUp
    /\ ClassifyIdle
    /\ FramesIdle
    /\ inbox = [m \in Msgs |-> LongText]
    /\ db = [present |-> [m \in Msgs |-> TRUE],
             processed |-> [m \in Msgs |-> FALSE],
             cats |-> {}, cls |-> {}, leads |-> {}, lookups |-> {}]
    /\ delivered = [w \in Workers |-> {}]
    /\ acked = [w \in Workers |-> {}]
    /\ wk = [w \in Workers |-> IdleWorker]

AdapterNext ==
    \/ \E t \in Texts, is_retry \in BOOLEAN : AStart(t, is_retry)
    \/ \E out \in LLMOutcomes, jitter \in Jitters : AInvoke(out, jitter)
    \/ AReturn

AdapterSpec == AdapterInit /\ [][AdapterNext]_vars

\* _classify_message on its own: a text under the short threshold or one
\* over it, any LLM behaviour
ClassifyNext ==
    \/ \E t \in {ShortText, LongText} : CMFirst(t)
    \/ \E out \in LLMOutcomes, jitter \in Jitters : AInvoke(out, jitter)
    \/ CMAfterFirst
    \/ CMAfterSecond
    \/ CMReturn

ClassifySpec == AdapterInit /\ [][ClassifyNext]_vars

\* the category-name functions on their own: any raw string up to MaxRaw
\* characters over NormChars
NormInit ==
    /\ AdapterIdle
    /\ RunnerIdle
    /\ ServiceUp
    /\ ClassifyIdle
    /\ FramesIdle
    /\ inbox = [m \in Msgs |-> LongText]
    /\ db = [present |-> [m \in Msgs |-> TRUE],
             processed |-> [m \in Msgs |-> FALSE],
             cats |-> {}, cls |-> {}, leads |-> {}, lookups |-> {}]
    /\ delivered = [w \in Workers |-> {}]
    /\ acked = [w \in Workers |-> {}]
    /\ wk = [w \in Workers |-> IdleWorker]
    /\ \E raw \in RawStrings :
          nz = [pc |-> "ready", raw |-> raw, standardized |-> <<>>,
                again |-> <<>>, validated |-> None]

NormNext ==
    \/ StandardizeCall
    \/ StandardizeAgainCall
    \/ ValidateCall

NormSpec == NormInit /\ [][NormNext]_vars

----------------------------------------------------------------------------
(* The category matcher: match_with_existing_categories on its own.        *)

\* the characters str.strip() removes
Whitespace == {" ", "\t", "\n"}

RECURSIVE StripLeading(_)
StripLeading(s) ==
    IF s # <<>> /\ Head(s) \in Whitespace THEN StripLeading(Tail(s)) ELSE s

RECURSIVE StripTrailing(_)
StripTrailing(s) ==
    IF s # <<>> /\ s[Len(s)] \in Whitespace
    THEN StripTrailing(SubSeq(s, 1, Len(s) - 1))
    ELSE s

\* str.strip()
Strip(s) == StripTrailing(StripLeading(s))

\* str.lower()
Lower(s) == [i \in DOMAIN s |-> LowerChar(s[i])]

\* the sentinel the prompt asks for when no category fits (line 306)
NoMatch == <<"n", "o", "_", "m", "a", "t", "c", "h">>

\* names of lead_categories rows: slugs the pipeline creates, a name
\* inserted with a capital by hand, and the slug that reads as the sentinel
StoredNames == {<<"b", "a", "b">>, <<"B", "a", "b">>, <<"a", "b", "_", "a">>, NoMatch}

\* the strings the matcher is called with: a message text, a category name
MatcherArgs == {<<"n", "a", "y", " ", "b", "a", "b", "!">>, <<"b", "a", "b">>}

\* response.content of the matcher's LLM call
MatcherContents ==
    {<<"b", "a", "b">>, <<" ", "B", "A", "b", "\n">>, <<"a", "b", " ", "a">>,
     <<"y", "a", "y">>, <<"b", "a", "b", "!">>, <<>>, NoMatch, <<"\t">> \o NoMatch}

ResolveAnswerEcho(existing, content) ==
    IF \E cat \in existing : Lower(cat) = Lower(Strip(content))
    THEN {Lower(Strip(content))}
    ELSE {None}

\* lines 322-331: the answer, trimmed and lowercased, against the lowercased
\* names; the first row of the list that fits is returned, and the list has
\* the order of a query without ORDER BY
ResolveAnswer(existing, content) ==
    LET matched_category == Lower(Strip(content))
        hits == {cat \in existing : Lower(cat) = matched_category}
    IN IF hits # {} THEN hits ELSE {None}

MQueryInvokesAnyway ==
    /\ mt.pc = "ready"
    /\ mt' = [mt EXCEPT !.pc = "prompted",
                        !.prompt = [built |-> TRUE, categories |-> mt.existing,
                                    text |-> mt.message_text]]

\* lines 274-316: the query, the early return on an empty list, the prompt
\* built from the names and the message_text argument
MQueryStep ==
    /\ mt.pc = "ready"
    /\ mt' = IF mt.existing = {}
             THEN [mt EXCEPT !.pc = "returned", !.result = None]
             ELSE [mt EXCEPT !.pc = "prompted",
                             !.prompt = [built |-> TRUE, categories |-> mt.existing,
                                         text |-> mt.message_text]]

MQuery ==
    /\ MQueryStep
    /\ UNCHANGED avars
    /\ UNCHANGED svars
    /\ UNCHANGED nvars
    /\ UNCHANGED rvars
    /\ UNCHANGED qvars
    /\ UNCHANGED cvars
    /\ UNCHANGED <<ft, ig>>

\* lines 319-337: llm.invoke raises (the except returns None) or answers
MInvoke(raises, content) ==
    /\ mt.pc = "prompted"
    /\ raises => content = <<>>
    /\ \E result \in (IF raises THEN {None} ELSE ResolveAnswer(mt.existing, content)) :
          mt' = [mt EXCEPT !.pc = "returned",
                           !.invocations = mt.invocations + 1,
                           !.content = IF raises THEN MatcherError ELSE content,
                           !.result = result]
    /\ UNCHANGED avars
    /\ UNCHANGED svars
    /\ UNCHANGED nvars
    /\ UNCHANGED rvars
    /\ UNCHANGED qvars
    /\ UNCHANGED cvars
    /\ UNCHANGED <<ft, ig>>

\* the matcher on its own: any set of stored names, either argument
MatchInit ==
    /\ AdapterIdle
    /\ RunnerIdle
    /\ ServiceUp
    /\ ClassifyIdle
    /\ NormIdle
    /\ FetchIdle
    /\ IngestIdle
    /\ inbox = [m \in Msgs |-> LongText]
    /\ db = [present |-> [m \in Msgs |-> TRUE],
             processed |-> [m \in Msgs |-> FALSE],
             cats |-> {}, cls |-> {}, leads |-> {}, lookups |-> {}]
    /\ delivered = [w \in Workers |-> {}]
    /\ acked = [w \in Workers |-> {}]
    /\ wk = [w \in Workers |-> IdleWorker]
    /\ \E existing \in SUBSET StoredNames, message_text \in MatcherArgs :
          mt = [pc |-> "ready", existing |-> existing,
                message_text |-> message_text, prompt |-> NoPrompt,
                invocations |-> 0, content |-> None, result |-> None]

MatchNext ==
    \/ MQuery
    \/ \E raises \in BOOLEAN, content \in MatcherContents : MInvoke(raises, content)

MatchSpec == MatchInit /\ [][MatchNext]_vars

----------------------------------------------------------------------------
(* The poll-mode fetch, MessageClassifierService._get_unclassified_messages *)
(* on a table of its own: more rows than the limit, processed and           *)
(* unprocessed, short and long.                                             *)

MaxRows == 3

\* a row of whatsapp_messages: its id is its position in the table
TableRows == [llm_processed : BOOLEAN, raw_text : {ShortText, LongText}]

Tables == UNION {[1..n -> TableRows] : n \in 0..MaxRows}

\* db.get_unclassified_messages: the ids of the rows with llm_processed
\* false (db.py lines 144-148)
UnclassifiedRows(table) ==
    SelectSeq([i \in 1..Len(table) |-> i], LAMBDA i : ~table[i].llm_processed)

\* unclassified_messages[:limit]
FirstRows(q, limit) == SubSeq(q, 1, IF Len(q) < limit THEN Len(q) ELSE limit)

UnclassifiedMessagesUnsliced(table, limit) ==
    SelectSeq(UnclassifiedRows(table), LAMBDA i : ~IsShort(table[i].raw_text))

\* lines 130-155: the first `limit` unclassified rows, without those whose
\* trimmed text is under 8 characters
UnclassifiedMessages(table, limit) ==
    SelectSeq(FirstRows(UnclassifiedRows(table), limit),
              LAMBDA i : ~IsShort(table[i].raw_text))

\* one call; exc: the query raises and the except returns [] (lines 156-158)
FetchCall(exc) ==
    /\ ft.pc = "ready"
    /\ ft' = [ft EXCEPT !.pc = "returned",
                        !.messages = IF exc THEN <<>>
                                     ELSE UnclassifiedMessages(ft.table, BatchLimit)]
    /\ UNCHANGED avars
    /\ UNCHANGED svars
    /\ UNCHANGED nvars
    /\ UNCHANGED rvars
    /\ UNCHANGED qvars
    /\ UNCHANGED cvars
    /\ UNCHANGED <<mt, ig>>

FetchInit ==
    /\ AdapterIdle
    /\ RunnerIdle
    /\ ServiceUp
    /\ ClassifyIdle
    /\ NormIdle
    /\ MatcherIdle
    /\ IngestIdle
    /\ inbox = [m \in Msgs |-> LongText]
    /\ db = [present |-> [m \in Msgs |-> TRUE],
             processed |-> [m \in Msgs |-> FALSE],
             cats |-> {}, cls |-> {}, leads |-> {}, lookups |-> {}]
    /\ delivered = [w \in Workers |-> {}]
    /\ acked = [w \in Workers |-> {}]
    /\ wk = [w \in Workers |-> IdleWorker]
    /\ \E table \in Tables : ft = [pc |-> "ready", table |-> table, messages |-> <<>>]

FetchNext == \E exc \in BOOLEAN : FetchCall(exc)

FetchSpec == FetchInit /\ [][FetchNext]_vars

----------------------------------------------------------------------------
(* Ingestion, and what becomes of the published payload: rows of           *)
(* whatsapp_messages with their integer primary key `id` and their         *)
(* external `message_id` (the idMessage string), the payloads on the       *)
(* stream, the poll-mode and the event-driven handling of one message.     *)

NumExt == 2

\* the external identifiers
ExtIds == 1..NumExt

\* where a notification comes from: a WhatsApp user writing in a group
Origins == {[user |-> 1, group |-> 1], [user |-> 2, group |-> 2]}

\* session.query(WhatsAppMessage).filter_by(message_id=...)
RowsByMessageId(store, message_id) ==
    {r \in store.messages : r.message_id = message_id}

\* the autoincremented primary key of the next inserted row
NextMessageId(store) == IntKey(Cardinality(store.messages) + 1)

\* create_or_get_user, create_or_get_group, create_message after its own
\* checks: the rows added for a message that is not stored yet
InsertMessage(store, message_id, u, g) ==
    [messages |-> store.messages \cup
                    {[id |-> NextMessageId(store), message_id |-> message_id,
                      sender |-> u, group |-> g, llm_processed |-> FALSE]},
     users |-> store.users \cup {u},
     groups |-> store.groups \cup {g}]

CreateMessageUnchecked(store, message_id, u, g) ==
    [store |-> InsertMessage(store, message_id, u, g),
     ret |-> NextMessageId(store)]

\* db.create_message_with_dependencies (lines 85-108): the existing row's
\* id when the message_id is stored, the new row's id otherwise
CreateMessageWithDependencies(store, message_id, u, g) ==
    IF RowsByMessageId(store, message_id) # {}
    THEN [store |-> store,
          ret |-> (CHOOSE r \in RowsByMessageId(store, message_id) : TRUE).id]
    ELSE [store |-> InsertMessage(store, message_id, u, g),
          ret |-> NextMessageId(store)]

\* db.mark_message_as_processed (lines 151-156): the row whose primary key
\* equals the argument, if there is one
MarkMessageAsProcessed(store, id) ==
    [store EXCEPT !.messages =
        {IF r.id = id THEN [r EXCEPT !.llm_processed = TRUE] ELSE r : r \in @}]

\* a call of create_message_with_dependencies
ICreate(e, u, g) ==
    /\ ig' = [ig EXCEPT
                !.store = CreateMessageWithDependencies(ig.store, StrKey(e), u, g).store,
                !.last = [op |-> "create", arg |-> StrKey(e),
                          ret |-> CreateMessageWithDependencies(ig.store, StrKey(e), u, g).ret,
                          outcome |-> "returned"]]
    /\ UNCHANGED avars
    /\ UNCHANGED svars
    /\ UNCHANGED nvars
    /\ UNCHANGED rvars
    /\ UNCHANGED qvars
    /\ UNCHANGED cvars
    /\ UNCHANGED <<mt, ft>>

\* incoming_message_received (receive_notification.py lines 88-146): a
\* short text and a stored message_id are skipped; otherwise user, group
\* and message are inserted and committed and the payload, whose 'id' is
\* the idMessage string, is published
IIncoming(e, u, g, text) ==
    /\ ig' = IF IsShort(text)
             THEN [ig EXCEPT !.last = [op |-> "incoming", arg |-> StrKey(e),
                                       ret |-> NoKey, outcome |-> "short"]]
             ELSE IF RowsByMessageId(ig.store, StrKey(e)) # {}
             THEN [ig EXCEPT !.last = [op |-> "incoming", arg |-> StrKey(e),
                                       ret |-> NoKey, outcome |-> "duplicate"]]
             ELSE [store |-> InsertMessage(ig.store, StrKey(e), u, g),
                   stream |-> ig.stream \cup {StrKey(e)},
                   last |-> [op |-> "incoming", arg |-> StrKey(e),
                             ret |-> NoKey, outcome |-> "published"]]
    /\ UNCHANGED avars
    /\ UNCHANGED svars
    /\ UNCHANGED nvars
    /\ UNCHANGED rvars
    /\ UNCHANGED qvars
    /\ UNCHANGED cvars
    /\ UNCHANGED <<mt, ft>>

\* poll mode handles a stored row as a non-lead: its message_id is the
\* row's primary key (classify_new_messages.py line 146), the row is
\* marked and committed
IPollHandle(r) ==
    /\ r \in ig.store.messages
    /\ ~r.llm_processed
    /\ ig' = [ig EXCEPT !.store = MarkMessageAsProcessed(ig.store, r.id),
                        !.last = [op |-> "poll", arg |-> r.id, ret |-> NoKey,
                                  outcome |-> "counted"]]
    /\ UNCHANGED avars
    /\ UNCHANGED svars
    /\ UNCHANGED nvars
    /\ UNCHANGED rvars
    /\ UNCHANGED qvars
    /\ UNCHANGED cvars
    /\ UNCHANGED <<mt, ft>>

\* the way process_classification_results ends for a payload whose 'id' is
\* the idMessage string, compared by the store with an integer column: the
\* store raises (a rollback follows), or no row is equal to it - the
\* non-lead is then committed without any row marked and counted, the
\* lead's message row is not found
QueueOutcome(is_lead, store_raises) ==
    IF store_raises THEN "failed"
    ELSE IF is_lead THEN "notfound" ELSE "counted"

\* the consumer handles a payload of the stream (process_message, lines
\* 64-93): message_id is message_data['id']
IQueueHandle(p, is_lead, store_raises) ==
    /\ p \in ig.stream
    /\ ig' = [store |-> IF QueueOutcome(is_lead, store_raises) = "counted"
                        THEN MarkMessageAsProcessed(ig.store, p)
                        ELSE ig.store,
              stream |-> ig.stream \ {p},
              last |-> [op |-> "queue", arg |-> p, ret |-> NoKey,
                        outcome |-> QueueOutcome(is_lead, store_raises)]]
    /\ UNCHANGED avars
    /\ UNCHANGED svars
    /\ UNCHANGED nvars
    /\ UNCHANGED rvars
    /\ UNCHANGED qvars
    /\ UNCHANGED cvars
    /\ UNCHANGED <<mt, ft>>

IngestInit ==
    /\ AdapterIdle
    /\ RunnerIdle
    /\ ServiceUp
    /\ ClassifyIdle
    /\ NormIdle
    /\ FramesIdle
    /\ inbox = [m \in Msgs |-> LongText]
    /\ db = [present |-> [m \in Msgs |-> TRUE],
             processed |-> [m \in Msgs |-> FALSE],
             cats |-> {}, cls |-> {}, leads |-> {}, lookups |-> {}]
    /\ delivered = [w \in Workers |-> {}]
    /\ acked = [w \in Workers |-> {}]
    /\ wk = [w \in Workers |-> IdleWorker]

IngestNext ==
    \/ \E e \in ExtIds, o \in Origins : ICreate(e, o.user, o.group)
    \/ \E e \in ExtIds, o \in Origins, text \in {ShortText, LongText} :
          IIncoming(e, o.user, o.group, text)
    \/ \E r \in ig.store.messages : IPollHandle(r)
    \/ \E p \in ig.stream, is_lead \in BOOLEAN, store_raises \in BOOLEAN :
          IQueueHandle(p, is_lead, store_raises)

IngestSpec == IngestInit /\ [][IngestNext]_vars

----------------------------------------------------------------------------
(* The poll-mode runner: MessageClassifierService.run_continuous and        *)
(* _run_classification_iteration, step by step. Each step takes what it     *)
(* meets: no exception ("none"), an exception that the step's own handler   *)
(* catches ("caught"), or one that leaves the step ("escapes").             *)

MaxIterations == 2

\* _run_classification_iteration lines 220-222: an exception left the body
\* of the try; errors is set to 1 and the statistics are returned
IterationExcept(r, site) ==
    [r EXCEPT !.pc = "stats", !.errors = 1, !.raised = @ \cup {site}]

\* run_continuous lines 242-253, _run_classification_iteration lines 167-176
RBegin ==
    /\ rn.pc = "loop"
    /\ rn.iteration < MaxIterations
    /\ rn' = [rn EXCEPT !.pc = "session", !.iteration = @ + 1,
                        !.messages_found = 0, !.failed = 0, !.errors = 0,
                        !.raised = {}]
    /\ UNCHANGED <<avars, svars, nvars, qvars, cvars, fvars>>

\* line 177: with get_db_session() as session
ROpenSession(exc) ==
    /\ rn.pc = "session"
    /\ exc \in {"none", "escapes"}
    /\ rn' = IF exc = "escapes" THEN IterationExcept(rn, "session")
             ELSE [rn EXCEPT !.pc = "fetch"]
    /\ UNCHANGED <<avars, svars, nvars, qvars, cvars, fvars>>

\* lines 179-184: _get_unclassified_messages returns n messages, or [] from
\* its own except (lines 156-158); an empty list ends the iteration
RFetch(exc, n) ==
    /\ rn.pc = "fetch"
    /\ exc \in {"none", "caught"}
    /\ exc = "caught" => n = 0
    /\ rn' = [rn EXCEPT !.pc = IF n = 0 THEN "stats" ELSE "classify",
                        !.messages_found = n,
                        !.raised = IF exc = "caught" THEN @ \cup {"fetch"} ELSE @]
    /\ UNCHANGED <<avars, svars, nvars, qvars, cvars, fvars>>

\* lines 186-188: classify_messages; k of the messages fail in its
\* per-message except and come back with success false
RClassify(exc, k) ==
    /\ rn.pc = "classify"
    /\ exc \in {"none", "escapes"}
    /\ k \in 0..rn.messages_found
    /\ exc = "escapes" => k = 0
    /\ rn' = IF exc = "escapes" THEN IterationExcept(rn, "body")
             ELSE [rn EXCEPT !.pc = "log", !.failed = k,
                             !.raised = IF k > 0 THEN @ \cup {"classify"} ELSE @]
    /\ UNCHANGED <<avars, svars, nvars, qvars, cvars, fvars>>

\* lines 191-212: a detailed log for every classified message (its own
\* except, line 124), errors += 1 for every failed one
RLog(exc) ==
    /\ rn.pc = "log"
    /\ exc = "caught" => rn.failed < rn.messages_found
    /\ rn' = IF exc = "escapes" THEN IterationExcept(rn, "body")
             ELSE [rn EXCEPT !.pc = "persist", !.errors = rn.failed,
                             !.raised = IF exc = "caught" THEN @ \cup {"log"} ELSE @]
    /\ UNCHANGED <<avars, svars, nvars, qvars, cvars, fvars>>

\* lines 214-218: process_classification_results, whose per-message except
\* rolls back and continues
RPersist(exc) ==
    /\ rn.pc = "persist"
    /\ rn' = IF exc = "escapes" THEN IterationExcept(rn, "body")
             ELSE [rn EXCEPT !.pc = "stats",
                             !.raised = IF exc = "caught" THEN @ \cup {"persist"} ELSE @]
    /\ UNCHANGED <<avars, svars, nvars, qvars, cvars, fvars>>

StatsStepReraises(r, exc) ==
    IF exc = "escapes"
    THEN [r EXCEPT !.pc = "stopped", !.total_errors = @ + r.errors,
                   !.raised = @ \cup {"stats"}]
    ELSE [r EXCEPT !.pc = "sleep", !.total_errors = @ + r.errors]

\* run_continuous lines 254-284: the totals are updated and the summary is
\* logged; an exception there is caught and counted
StatsStep(r, exc) ==
    IF exc = "escapes"
    THEN [r EXCEPT !.pc = "sleep", !.total_errors = @ + r.errors + 1,
                   !.raised = @ \cup {"stats"}]
    ELSE [r EXCEPT !.pc = "sleep", !.total_errors = @ + r.errors]

RStats(exc) ==
    /\ rn.pc = "stats"
    /\ exc \in {"none", "escapes"}
    /\ rn' = StatsStep(rn, exc)
    /\ UNCHANGED <<avars, svars, nvars, qvars, cvars, fvars>>

\* line 287: time.sleep(self.run_every_seconds)
RSleep ==
    /\ rn.pc = "sleep"
    /\ rn' = [rn EXCEPT !.pc = "loop"]
    /\ UNCHANGED <<avars, svars, nvars, qvars, cvars, fvars>>

\* a KeyboardInterrupt, which no `except Exception` catches: lines 278-280
RInterrupt ==
    /\ rn.pc # "stopped"
    /\ rn' = [rn EXCEPT !.pc = "stopped", !.interrupted = TRUE]
    /\ UNCHANGED <<avars, svars, nvars, qvars, cvars, fvars>>

RunnerInit == AdapterInit

RunnerNext ==
    \/ RBegin
    \/ \E exc \in {"none", "caught", "escapes"} : ROpenSession(exc)
    \/ \E exc \in {"none", "caught", "escapes"}, n \in 0..BatchLimit : RFetch(exc, n)
    \/ \E exc \in {"none", "caught", "escapes"}, k \in 0..BatchLimit : RClassify(exc, k)
    \/ \E exc \in {"none", "caught", "escapes"} : RLog(exc)
    \/ \E exc \in {"none", "caught", "escapes"} : RPersist(exc)
    \/ \E exc \in {"none", "caught", "escapes"} : RStats(exc)
    \/ RSleep
    \/ RInterrupt

RunnerSpec == RunnerInit /\ [][RunnerNext]_vars

----------------------------------------------------------------------------
(* Properties.                                                             *)

\* the Classification rows of message m in store d, and the Lead rows that
\* reference them
ClsOf(d, m) == {c \in d.cls : c.message_id = m}
LeadsOfCls(d, c) == {l \in d.leads : l.classification_id = c.id}
LeadsOf(d, m) == UNION {LeadsOfCls(d, c) : c \in ClsOf(d, m)}

\* worker w holds message m in the batch it is working on
Holds(w, m) == \E i \in DOMAIN wk[w].batch : wk[w].batch[i] = m

\* this step is worker w handling the result at its current position
Handles(w) ==
    /\ wk[w].stage = "process"
    /\ wk[w].idx <= Len(wk[w].results)
    /\ wk'[w].stage = "process"
    /\ wk'[w].idx = wk[w].idx + 1

\* ... and the handler reached the commit (processed_count += 1)
Completes(w) ==
    Handles(w) /\ wk'[w].processed_count = wk[w].processed_count + 1

CurResult(w) == wk[w].results[wk[w].idx]

C3_AtomicCommit ==
    /\ \A c \in db.cls : db.present[c.message_id] /\ db.processed[c.message_id]
    /\ \A l \in db.leads :
          \E c \in db.cls : /\ c.id = l.classification_id
                            /\ db.processed[c.message_id]

\* a lead was committed with its message processed, while some handled
\* result of a worker was not committed (failure, skip or missing row)
C3_Witness ==
    /\ \E c \in db.cls : LeadsOfCls(db, c) # {} /\ db.processed[c.message_id]
    /\ \E w \in Workers :
          wk[w].stage = "process" /\ wk[w].processed_count < wk[w].idx - 1

C7_SkipOnMissingCategory ==
    [][\A w \in Workers :
          (/\ Handles(w)
           /\ CurResult(w).success
           /\ CurResult(w).classification_result.is_lead
           /\ ~Truthy(CurResult(w).classification_result.lead_category)) =>
              /\ db' = db
              /\ wk'[w].processed_count = wk[w].processed_count
              /\ (db.present[CurResult(w).message_id]
                   /\ ~db.processed[CurResult(w).message_id]) =>
                     \E i \in DOMAIN GetUnclassifiedMessages(db') :
                        GetUnclassifiedMessages(db')[i] = CurResult(w).message_id]_vars

\* a worker has passed a lead result without category and the message is
\* still unprocessed
C7_Witness ==
    \E w \in Workers :
        /\ wk[w].stage = "process"
        /\ wk[w].idx > 1
        /\ wk[w].results[1].success
        /\ wk[w].results[1].classification_result.is_lead
        /\ ~Truthy(wk[w].results[1].classification_result.lead_category)
        /\ db.present[wk[w].results[1].message_id]
        /\ ~db.processed[wk[w].results[1].message_id]

\* C8: for a text whose trimmed length is below 8 the adapter returns
\* is_lead = false with lead_category None and invokes the LLM zero times,
\* whatever is_retry is.
C8_ShortMessageShortCircuit ==
    (a_pc # "idle" /\ TrimmedLen(a_text) < 8) =>
        /\ a_pc = "returned"
        /\ a_calls = 0
        /\ ~a_result.is_lead
        /\ a_result.lead_category = None

\* a retry call returned for a text that is 8 characters or more before
\* trimming and under 8 after it
C8_Witness ==
    /\ a_pc = "returned"
    /\ a_retry
    /\ TrimmedLen(a_text) < 8
    /\ RawLen(a_text) >= 8

\* C9: a call whose every LLM invocation raised returns after exactly 3
\* invocations, with the default result: is_lead = false, lead_category
\* None, the reasoning naming the 3 attempts.
C9_RetryExhaustion ==
    (/\ a_pc = "returned"
     /\ a_hist # <<>>
     /\ \A i \in DOMAIN a_hist : a_hist[i].kind = "raise") =>
        /\ a_calls = 3
        /\ ~a_result.is_lead
        /\ a_result.lead_category = None
        /\ a_result.reasoning = Reasoning("error_after_attempts", 3)

C9_Witness ==
    /\ a_pc = "returned"
    /\ Len(a_hist) = 3
    /\ \A i \in DOMAIN a_hist : a_hist[i].kind = "raise"

\* C10: a call never raises and never invokes the LLM more than 3 times;
\* while it runs another attempt is left; a returned result is a lead only
\* if the last response was parsed (strictly or from its JSON span) with
\* is_lead true.
C10_NeverRaisesAlwaysReturns ==
    /\ a_pc \in {"idle", "running", "returned"}
    /\ a_calls <= 3
    /\ a_calls = Len(a_hist)
    /\ a_pc = "running" => a_attempt < max_retries /\ a_calls = a_attempt
    /\ (a_pc = "returned" /\ a_result.is_lead) =>
          /\ a_hist # <<>>
          /\ AttemptSucceeds(a_hist[Len(a_hist)])
          /\ a_hist[Len(a_hist)].is_lead = "true"
    /\ a_pc = "returned" =>
          \A i \in 1..(Len(a_hist) - 1) : ~AttemptSucceeds(a_hist[i])

\* a call returned after a raise, an unparseable text and a response that
\* decodes but cannot be built into a result
C10_Witness ==
    /\ a_pc = "returned"
    /\ Len(a_hist) = 3
    /\ a_hist[1].kind = "raise"
    /\ a_hist[2].kind = "garbage"
    /\ a_hist[3].kind = "json"
    /\ JsonRaises(a_hist[3])
    /\ ~a_result.is_lead

\* a normalized category name that passes _validate_category: only
\* [a-z0-9_], no doubled, leading or trailing underscore, 3 characters or more
ValidSlug(c) ==
    /\ c # None
    /\ Len(c) >= MinCategoryLen
    /\ \A i \in DOMAIN c : c[i] \in SlugChars
    /\ c[1] # "_" /\ c[Len(c)] # "_"
    /\ \A i \in 1..(Len(c) - 1) : ~(c[i] = "_" /\ c[i + 1] = "_")

\* the response the returned result of the call was parsed from
LastOut == a_hist[Len(a_hist)]

GenericTerms ==
    {<<"g", "e", "n", "e", "r", "a", "l">>,
     <<"b", "u", "s", "i", "n", "e", "s", "s">>,
     <<"s", "e", "r", "v", "i", "c", "e">>,
     <<"s", "t", "o", "r", "e">>, <<"s", "h", "o", "p">>,
     <<"l", "o", "c", "a", "l">>, <<"a", "n", "y">>,
     <<"o", "t", "h", "e", "r">>}

\* C12 as stated: _validate_category returns None for every raw string
\* whose normalized slug is empty, shorter than 3 characters, or one of the
\* generic terms.
C12_GenericCategoryRejection ==
    (/\ nz.pc = "validated"
     /\ \/ Len(StandardizeCategoryName(nz.raw)) < 3
        \/ StandardizeCategoryName(nz.raw) \in GenericTerms) =>
        nz.validated = None

\* C12 as amended: _validate_category returns None exactly for the raw
\* strings whose normalized slug is empty or shorter than 3 characters,
\* and the normalized slug for every other one, generic terms included.
C12_ShortCategoryRejection ==
    nz.pc = "validated" =>
        IF Len(StandardizeCategoryName(nz.raw)) < 3
        THEN nz.validated = None
        ELSE nz.validated = StandardizeCategoryName(nz.raw)

\* a non-empty raw string whose slug has one or two characters was
\* rejected
C12_Witness ==
    /\ nz.pc = "validated"
    /\ nz.raw # <<>>
    /\ Len(StandardizeCategoryName(nz.raw)) \in 1..2
    /\ nz.validated = None

RECURSIVE RefWords(_, _, _, _)
\* The reference normalizer, in one pass over the raw string: lowercased
\* letters and digits are kept in order; wherever characters of seps occur
\* between two kept characters, one underscore stands between them; every
\* other character is dropped.
RefWords(s, out, sep, seps) ==
    IF s = <<>> THEN out
    ELSE IF LowerChar(Head(s)) \in SlugChars \ {"_"}
    THEN RefWords(Tail(s),
                  IF sep /\ out # <<>>
                  THEN out \o <<"_", LowerChar(Head(s))>>
                  ELSE Append(out, LowerChar(Head(s))),
                  FALSE, seps)
    ELSE IF Head(s) \in seps
    THEN RefWords(Tail(s), out, TRUE, seps)
    ELSE RefWords(Tail(s), out, sep, seps)

\* C13 as stated: _standardize_category_name(raw) is the raw string
\* lowercased, every run of whitespace (space, tab) replaced by one
\* underscore, characters outside [a-z0-9_] deleted, repeated underscores
\* collapsed, leading and trailing underscores trimmed.
C13_NormalizerMatchesReference ==
    nz.pc = "standardized" =>
        nz.standardized = RefWords(nz.raw, <<>>, FALSE, {" ", "\t", "_"})

\* C13 as amended: the same with only the space character replaced by an
\* underscore; a tab is deleted like every other character outside
\* [a-z0-9_].
C13_NormalizerReplacesSpaces ==
    nz.pc = "standardized" =>
        nz.standardized = RefWords(nz.raw, <<>>, FALSE, {" ", "_"})

\* "A n!" was normalized to "a_n"
C13_Witness ==
    /\ nz.pc = "standardized"
    /\ nz.raw = <<"A", " ", "n", "!">>
    /\ nz.standardized = <<"a", "_", "n">>

C15_BatchFaultIsolation ==
    [][\A w \in Workers :
          (/\ Handles(w)
           /\ wk[w].mode = "poll"
           /\ CurResult(w).success
           /\ db.present[CurResult(w).message_id]
           /\ ~db.processed[CurResult(w).message_id]) =>
              LET m == CurResult(w).message_id
              IN IF CurResult(w).classification_result = ErrorResult
                 THEN /\ ~db'.processed[m]
                      /\ ClsOf(db', m) = {}
                      /\ LeadsOf(db', m) = {}
                 ELSE Completes(w) =>
                      /\ db'.processed[m]
                      /\ Cardinality(ClsOf(db', m))
                            = (IF CurResult(w).classification_result.is_lead
                               THEN 1 ELSE 0)
                      /\ Cardinality(LeadsOf(db', m))
                            = Cardinality(ClsOf(db', m))]_vars

C17_FailureRollback ==
    [][\A w \in Workers :
          (/\ wk[w].stage = "process"
           /\ wk[w].idx <= Len(wk[w].results)
           /\ wk'[w] # wk[w]
           /\ wk'[w].outcome = "failed") =>
              /\ db' = db
              /\ wk'[w].pend = NoPending
              /\ wk'[w].processed_count = wk[w].processed_count
              /\ wk'[w].stage = "process"
              /\ wk'[w].results = wk[w].results
              /\ wk'[w].idx = wk[w].idx + 1]_vars

\* the handling of a lead with a category failed for the first message of
\* a batch of two: the message is unprocessed, no row of it is committed,
\* and the loop is at the second result
C17_Witness ==
    \E w \in Workers :
        /\ wk[w].stage = "process"
        /\ wk[w].idx = 2
        /\ Len(wk[w].results) = 2
        /\ wk[w].outcome = "failed"
        /\ wk[w].results[1].classification_result.is_lead
        /\ Truthy(wk[w].results[1].classification_result.lead_category)
        /\ ~db.processed[wk[w].results[1].message_id]
        /\ ClsOf(db, wk[w].results[1].message_id) = {}
        /\ db.cats = {}

\* C18: a message is acknowledged only by a consumer whose handling of it
\* reached the lead or the non-lead outcome and committed it as processed.
C18_AckOnlyAfterSuccess ==
    [][\A w \in Consumers, m \in Msgs :
          (m \notin acked[w] /\ m \in acked'[w]) =>
              /\ wk[w].batch = <<m>>
              /\ wk[w].outcome \in {"lead", "nonlead"}
              /\ wk[w].processed_count = 1
              /\ db.processed[m]]_vars

\* C19: a message that was delivered to the consumer and is left
\* unacknowledged when the consumer is back at reading the stream is
\* eventually delivered to it again.
C19_Redelivery ==
    \A w \in Consumers, m \in Msgs :
        (m \in delivered[w] /\ m \notin acked[w] /\ wk[w].mode = "idle")
            ~> (wk[w].mode = "queue" /\ wk[w].batch = <<m>>)

\* C20 as stated: only a KeyboardInterrupt stops run_continuous; an
\* iteration in which an exception was raised (fetching, classifying,
\* logging, persisting or anywhere else) adds to total_errors; after the
\* statistics the loop sleeps and after the sleep it is at the next
\* iteration.
C20_RunnerCountsEveryException ==
    [][/\ rn'.pc = "stopped" => rn'.interrupted
       /\ (rn.pc = "stats" /\ rn'.pc = "sleep" /\ rn'.raised # {}) =>
               rn'.total_errors > rn.total_errors
       /\ (rn.pc = "stats" /\ rn' # rn) => rn'.pc \in {"sleep", "stopped"}
       /\ (rn.pc = "sleep" /\ rn' # rn) => rn'.pc \in {"loop", "stopped"}]_vars

\* C20 as amended: the same, with total_errors raised exactly by the
\* iterations in which a message's classification failed or an exception
\* left the body of the iteration (opening the session included) or was
\* raised in run_continuous itself; exceptions caught inside fetching,
\* detailed logging and per-message persistence are not counted.
C20_RunnerSurvives ==
    [][/\ rn'.pc = "stopped" => rn'.interrupted
       /\ (rn.pc = "stats" /\ rn'.pc = "sleep") =>
               ((rn'.total_errors > rn.total_errors) <=>
                (rn'.raised \cap {"session", "classify", "body", "stats"} # {}))
       /\ (rn.pc = "stats" /\ rn' # rn) => rn'.pc \in {"sleep", "stopped"}
       /\ (rn.pc = "sleep" /\ rn' # rn) => rn'.pc \in {"loop", "stopped"}]_vars

\* the runner sleeps after a second iteration whose only exception was a
\* persistence failure, the first iteration having counted one error
C20_Witness ==
    /\ rn.pc = "sleep"
    /\ rn.iteration = 2
    /\ rn.raised = {"persist"}
    /\ rn.total_errors = 1
    /\ ~rn.interrupted

\* C21: no step of the consumer loop ends the service process, whether the
\* read from the stream, the processing of the message or its
\* acknowledgement raised; when the handling of a message ends, acknowledged
\* or not, the consumer is back at the read.
C21_ConsumerSurvives ==
    [][\A w \in Consumers :
          /\ qsvc'[w].status = "up"
          /\ (wk[w].mode = "queue" /\ wk'[w].mode # "queue") =>
                wk'[w] = IdleWorker]_vars

\* C22: once a shutdown signal has arrived at the event-driven service, the
\* consumer starts no further message, and the process eventually exits
\* with no message in flight.
C22_GracefulShutdown ==
    /\ [][\A w \in Consumers :
             ~qsvc[w].running => ~(wk[w].mode = "idle" /\ wk'[w].mode = "queue")]_vars
    /\ \A w \in Consumers :
          ~qsvc[w].running ~> (qsvc[w].status # "up" /\ wk[w].mode = "idle")

\* C23: in poll mode, with an LLM that returns a verdict, every stored
\* message whose processed flag is false is eventually marked processed.
C23_EventualProcessing ==
    \A m \in Msgs :
        (db.present[m] /\ ~db.processed[m]) ~> db.processed[m]

\* the normalized slug of a category name
Slug(c) == RefWords(c, <<>>, FALSE, {" ", "_"})

C25_CategoryBeforeClassification ==
    /\ \A c \in db.cls : c.category \in db.cats
    /\ \A w \in Workers :
          \A c \in wk[w].pend.cls : c.category \in db.cats \cup wk[w].pend.cats

\* a lead is committed under its Category while a session holds the flushed
\* Classification of a message whose row was not found, together with the
\* Category it created for it, which is not committed
C25_Witness ==
    /\ \E c \in db.cls : c.is_lead /\ c.category \in db.cats
    /\ \E w \in Workers :
          \E c \in wk[w].pend.cls :
              c.category \in wk[w].pend.cats /\ c.category \notin db.cats

C27_BoundedRepair ==
    [][/\ cm'.invocations <= 2
       /\ cm'.pc = "first" => ~a_retry' /\ cm'.invocations = 1
       /\ cm'.pc = "second" => a_retry' /\ cm'.invocations = 2
       /\ (cm.pc = "first" /\ cm' # cm) =>
             IF a_result.is_lead
                /\ (a_result.lead_category = None \/ a_result.lead_category = <<>>)
             THEN cm'.pc = "second" /\ a_pc' # "idle" /\ a_text' = a_text
             ELSE cm'.pc = "done" /\ cm'.final = a_result /\ cm'.invocations = 1
       /\ (cm.pc = "second" /\ cm' # cm) =>
             cm'.pc = "done" /\ cm'.final = a_result /\ cm'.invocations = 2]_vars

\* the call ended after a second invocation that again returned a lead
\* without a category, the first having returned a lead with an empty one
C27_Witness ==
    /\ cm.pc = "done"
    /\ cm.invocations = 2
    /\ cm.first.is_lead /\ cm.first.lead_category = <<>>
    /\ cm.final.is_lead /\ cm.final.lead_category = None

\* the last response of the call, whose earlier responses all failed (the
\* invoke raised, or the text neither parsed nor held a decodable object)
FirstSuccessAfterFailures ==
    /\ a_hist # <<>>
    /\ a_hist[Len(a_hist)].kind = "structured"
    /\ \A i \in 1..(Len(a_hist) - 1) : a_hist[i].kind \in {"raise", "garbage"}

\* C28: when the first k LLM calls of one adapter call fail (k < 3) and call
\* k+1 returns valid structured output, the adapter returns the result of
\* call k+1 and has invoked the LLM exactly k+1 times; no call is made after
\* a valid structured output
C28_RetryStopsAtFirstSuccess ==
    /\ a_pc = "running" => \A i \in DOMAIN a_hist : a_hist[i].kind # "structured"
    /\ (a_pc = "returned" /\ FirstSuccessAfterFailures) =>
          LET out == a_hist[Len(a_hist)]
              rejected == Truthy(out.cat) /\ Len(Slug(out.cat)) < 3
          IN /\ Len(a_hist) <= 3
             /\ a_calls = Len(a_hist)
             /\ a_result.reasoning.tag # "error_after_attempts"
             /\ a_result.is_lead = (out.is_lead = "true" /\ ~rejected)
             /\ a_result.lead_category =
                    IF rejected THEN None
                    ELSE IF Truthy(out.cat) THEN Slug(out.cat) ELSE out.cat

\* two failed calls, then a structured lead whose category is returned
C28_Witness ==
    /\ a_pc = "returned"
    /\ Len(a_hist) = 3
    /\ a_hist[1].kind = "raise"
    /\ a_hist[2].kind = "garbage"
    /\ a_hist[3].kind = "structured"
    /\ a_calls = 3
    /\ a_result.is_lead
    /\ a_result.lead_category = <<"a", "b", "_", "a">>

\* the result the fallback builds from a decoded object: is_lead false
\* unless given as true, the fixed reasoning when none is given, the category
\* normalized, and the negative result when the category is rejected
RepairedFrom(out) ==
    LET rejected == Truthy(out.cat) /\ Len(Slug(out.cat)) < 3
    IN Result(out.is_lead = "true" /\ ~rejected,
              IF rejected THEN None
              ELSE IF Truthy(out.cat) THEN Slug(out.cat) ELSE out.cat,
              Reasoning(IF rejected THEN "invalid_category"
                        ELSE IF out.reasoning = "absent" THEN "malformed"
                        ELSE "llm", 0))

\* response i of the call is the last one, the call returned the result
\* repaired from it, and no sleep followed it
RepairedAt(i) ==
    /\ i = Len(a_hist)
    /\ a_calls = i
    /\ a_pc = "returned"
    /\ a_result = RepairedFrom(a_hist[i])
    /\ Len(a_sleeps) = i - 1

C30_BackoffSchedule ==
    /\ Len(a_sleeps) <= 2
    /\ a_pc = "running" => Len(a_sleeps) = a_calls
    /\ a_pc = "returned" /\ a_calls > 0 => Len(a_sleeps) = a_calls - 1
    /\ a_calls = 0 => a_sleeps = <<>>
    /\ \A k \in DOMAIN a_sleeps :
          /\ k < Len(a_hist) \/ a_pc = "running"
          /\ a_hist[k].kind # "structured"
          /\ a_sleeps[k] >= 2 ^ (k - 1)
          /\ a_sleeps[k] <= 2 ^ (k - 1) + 1

\* three failed attempts: the shortest first sleep, the longest second
\* sleep, and the default result without a third sleep
C30_Witness ==
    /\ a_pc = "returned"
    /\ a_calls = 3
    /\ a_hist[3].kind = "raise"
    /\ a_sleeps = <<1, 3>>
    /\ a_result.reasoning.tag = "error_after_attempts"

\* C31: when the set of existing categories is empty, the matcher returns
\* None and has invoked the LLM zero times
C31_MatcherSkipsOnEmptyTaxonomy ==
    (mt.existing = {} /\ mt.pc \notin {"idle", "ready"}) =>
        /\ mt.pc = "returned"
        /\ mt.result = None
        /\ mt.invocations = 0
        /\ ~mt.prompt.built

\* a call on an empty category table has returned
C31_Witness ==
    /\ mt.pc = "returned"
    /\ mt.existing = {}
    /\ mt.message_text = <<"b", "a", "b">>
    /\ mt.invocations = 0
    /\ mt.result = None

\* two strings are equal up to the case of their letters
SameIgnoringCase(a, b) ==
    /\ Len(a) = Len(b)
    /\ \A i \in DOMAIN a : LowerChar(a[i]) = LowerChar(b[i])

\* the matcher returned None or a stored name equal, up to case, to the
\* trimmed answer
CanonicalOrNone ==
    mt.pc = "returned" =>
        \/ mt.result = None
        \/ /\ mt.result \in mt.existing
           /\ mt.content # MatcherError
           /\ SameIgnoringCase(mt.result, Strip(mt.content))

\* C32 as stated: the matcher returns None or the stored name of an existing
\* category equal to the trimmed answer case-insensitively, never a name
\* outside the list, and None for the answer no_match
C32_MatcherCanonicalOrNone ==
    /\ CanonicalOrNone
    /\ (mt.pc = "returned" /\ mt.content # MatcherError /\ Strip(mt.content) = NoMatch)
          => mt.result = None

\* C32: the matcher returns None or the stored name of an existing category
\* equal to the trimmed answer case-insensitively, never a name outside the
\* list, and None for the answer no_match unless a category of that name is
\* stored
C32_MatcherCanonicalOrNoneUnlessStored ==
    /\ CanonicalOrNone
    /\ (/\ mt.pc = "returned"
        /\ mt.content # MatcherError
        /\ Strip(mt.content) = NoMatch
        /\ \A cat \in mt.existing : ~SameIgnoringCase(cat, NoMatch))
          => mt.result = None

\* an answer in other case and with surrounding whitespace is resolved to
\* the stored spelling
C32_Witness ==
    /\ mt.pc = "returned"
    /\ mt.existing = {<<"B", "a", "b">>, <<"a", "b", "_", "a">>}
    /\ mt.content = <<" ", "B", "A", "b", "\n">>
    /\ mt.result = <<"B", "a", "b">>

\* C33: on the lead path the category matcher is called with the original
\* text of the message being handled, so that its prompt contains that text
C33_MatcherReceivesOriginalMessage ==
    \A w \in Workers :
        (wk[w].stage = "process" /\ wk[w].idx > 1 /\ wk[w].matcher_arg # NoArgument)
            => wk[w].matcher_arg =
                   [field |-> "raw_text",
                    of |-> wk[w].results[wk[w].idx - 1].message_id]

\* C34: the list a poll iteration hands to the orchestrator holds at most
\* the batch limit of messages, every one of them unprocessed in the table
\* it was read from, and none with a trimmed text of fewer than 8 characters
C34_BoundedPrefilteredBatch ==
    ft.pc = "returned" =>
        /\ Len(ft.messages) <= BatchLimit
        /\ \A k \in DOMAIN ft.messages :
              /\ ft.messages[k] \in DOMAIN ft.table
              /\ ~ft.table[ft.messages[k]].llm_processed
              /\ TrimmedLen(ft.table[ft.messages[k]].raw_text) >= 8

\* more unprocessed rows than the limit, a short one among the first: the
\* list is the one long row of the slice
C34_Witness ==
    /\ ft.pc = "returned"
    /\ Len(ft.table) = MaxRows
    /\ \A i \in DOMAIN ft.table : ~ft.table[i].llm_processed
    /\ ft.table[1].raw_text = LongText
    /\ ft.table[2].raw_text = ShortText
    /\ \A i \in 3..MaxRows : ft.table[i].raw_text = LongText
    /\ Len(ft.messages) = BatchLimit - 1
    /\ ft.messages[1] = 1

\* C35: within one batch the writes of a message whose handling completed
\* are committed before the next message's writes begin (the session holds
\* nothing uncommitted after it), and no later step of the batch, a failure
\* with its rollback included, removes a committed Classification, Lead or
\* Category or resets a committed processed flag
C35_PerMessageCommit ==
    [][\A w \in Workers :
          Handles(w) =>
              /\ db.cats \subseteq db'.cats
              /\ db.cls \subseteq db'.cls
              /\ db.leads \subseteq db'.leads
              /\ \A m \in Msgs : db.processed[m] => db'.processed[m]
              /\ wk'[w].processed_count = wk[w].processed_count + 1 =>
                    /\ wk'[w].pend = NoPending
                    /\ db.present[CurResult(w).message_id] =>
                          db'.processed[CurResult(w).message_id]]_vars

\* the first message of a batch of two was committed as a lead, the
\* handling of the second failed and was rolled back: the first message's
\* rows and flag are in the store
C35_Witness ==
    \E w \in Workers :
        /\ wk[w].stage = "process"
        /\ Len(wk[w].results) = 2
        /\ wk[w].idx = 3
        /\ wk[w].outcome = "failed"
        /\ wk[w].processed_count = 1
        /\ db.processed[wk[w].results[1].message_id]
        /\ ~db.processed[wk[w].results[2].message_id]
        /\ \E c \in ClsOf(db, wk[w].results[1].message_id) :
              /\ c.category \in db.cats
              /\ LeadsOfCls(db, c) # {}

\* C36: creating a message whose external identifier is already stored
\* returns the stored row's id and adds no Message, User or Group row and
\* leaves every processed flag as it is; in every reachable store there is
\* at most one Message row per external identifier
C36_DuplicateIngestionIdempotent ==
    /\ [](\A r1, r2 \in ig.store.messages :
             (r1.message_id = r2.message_id \/ r1.id = r2.id) => r1 = r2)
    /\ [][(/\ ig'.last # ig.last
            /\ ig'.last.op \in {"create", "incoming"}
            /\ \E r \in ig.store.messages : r.message_id = ig'.last.arg) =>
               /\ ig'.store = ig.store
               /\ ig'.stream = ig.stream
               /\ ig'.last.op = "create" =>
                     \E r \in ig.store.messages :
                         r.message_id = ig'.last.arg /\ r.id = ig'.last.ret]_vars

\* the message inserted first was marked processed, a second message was
\* inserted by another user, and then the first was created again: its id is
\* returned, it is still processed, and there are two rows
C36_Witness ==
    /\ ig.last.op = "create"
    /\ ig.last.ret = IntKey(1)
    /\ Cardinality(ig.store.messages) = 2
    /\ Cardinality(ig.store.users) = 2
    /\ Cardinality(ig.store.groups) = 2
    /\ \E r \in ig.store.messages :
          r.id = IntKey(1) /\ r.message_id = ig.last.arg /\ r.llm_processed

\* C39: when a payload published by the ingestion handler has been handled
\* by the consumer and the handling was committed and counted, the Message
\* row with the payload's external identifier is marked processed
C39_QueueMarksTheRightRow ==
    (ig.last.op = "queue" /\ ig.last.outcome = "counted") =>
        \A r \in ig.store.messages :
            r.message_id = ig.last.arg => r.llm_processed

\* empty, or only lower-case letters, digits and underscores, with no
\* underscore at either end and no two in a row
ClosedSlug(s) ==
    /\ \A i \in DOMAIN s : s[i] \in {"a", "b", "n", "y", "1", "_"}
    /\ s # <<>> => s[1] # "_" /\ s[Len(s)] # "_"
    /\ \A i \in 1..(Len(s) - 1) : ~(s[i] = "_" /\ s[i + 1] = "_")

\* C37: normalizing the normalizer's output gives that output again, and
\* the output is empty or consists of characters of [a-z0-9_] with no
\* leading, trailing or consecutive underscore
C37_NormalizerIdempotentAndClosed ==
    /\ nz.pc \in {"standardized", "restandardized"} => ClosedSlug(nz.standardized)
    /\ nz.pc = "restandardized" => nz.again = nz.standardized

\* a raw string with punctuation before a blank and a capital, normalized
\* twice
C37_Witness ==
    /\ nz.pc = "restandardized"
    /\ nz.raw = <<"!", " ", "A", "y">>
    /\ nz.standardized = <<"a", "y">>
    /\ nz.again = <<"a", "y">>

\* C38: classify_messages gives one result per message of its input, in the
\* order of the input and with that message's id, a result with success
\* false for a message whose classification raised; when the results are
\* handed on, results[i] belongs to messages[i] for every i
C38_OneResultPerMessage ==
    \A w \in Workers :
        /\ Len(wk[w].results) <= Len(wk[w].batch)
        /\ \A i \in DOMAIN wk[w].results :
              /\ wk[w].results[i].message_id = wk[w].batch[i]
              /\ ~wk[w].results[i].success =>
                    wk[w].results[i].classification_result = NoResult
        /\ wk[w].stage = "process" => Len(wk[w].results) = Len(wk[w].batch)

\* a batch of two whose first classification raised and whose second
\* succeeded: two results, the failed one first
C38_Witness ==
    \E w \in Workers :
        /\ wk[w].stage = "process"
        /\ wk[w].idx = 1
        /\ Len(wk[w].batch) = 2
        /\ Len(wk[w].results) = 2
        /\ ~wk[w].results[1].success
        /\ wk[w].results[2].success
        /\ wk[w].results[1].message_id = wk[w].batch[1]
        /\ wk[w].results[2].message_id = wk[w].batch[2]

\* C40: a skipped message leaves nothing pending: a commit adds to the
\* store only rows of the message it is made for - the MessageIntentType
\* and the prompt row of that message's result, classifications of that
\* message, the category that message resolves to - and never a row that
\* was flushed while an earlier, skipped message was handled
C40_SkippedLeaveNothingPending ==
    [][\A w \in Workers :
          Handles(w) =>
              /\ db'.lookups \ db.lookups
                    \subseteq Lookups(CurResult(w).classification_result)
              /\ \A c \in db'.cls \ db.cls :
                    /\ c.message_id = CurResult(w).message_id
                    /\ db'.processed[c.message_id]]_vars

====
